---- MODULE Spec2Model ----
(***************************************************************************)
(* A model of gesture-canvas: the drawable elements and their JSON         *)
(* round trip (js/elements.js), the DrawingCanvas scene with its undo/redo *)
(* history (js/canvas.js), and the GestureRecognizer's hand classification *)
(* and tap detection.                                                      *)
(*                                                                         *)
(* Numbers.  Canvas coordinates are integers.  Normalised landmark         *)
(* coordinates (0..1 in the source) are counted in hundredths, so the      *)
(* source's 0.02 is 2, 0.08 is 8 and 0.1 is 10.  Times are milliseconds.   *)
(* The viewport transform is kept in exact rationals <<num, den>>.         *)
(*                                                                         *)
(* JavaScript values.  A missing option (undefined) and null are falsy;    *)
(* a missing numeric option is 0, a missing string option is "" and a      *)
(* missing list is <<>>, which is how `a || b` treats them.  A null        *)
(* object reference is the id 0; a null time is Null.                      *)
(***************************************************************************)
EXTENDS Integers, Sequences, FiniteSets, TLC

VARIABLES
    canvas,   \* the DrawingCanvas object
    pre,      \* the DrawingCanvas as it was before the last operation
    op,       \* the last operation called on the canvas, with its argument
    steps,    \* number of operations called so far
    run,      \* what is counted over a run of calls: the pushes and undos
              \* of a push-then-undo run, the course of a pinch gesture
    elem,     \* an Element object under construction / mutation
    out,      \* the result of the last toJSON/fromJSON or clone of elem
    hand,     \* the landmarks of the hand handed to analyzeHand
    gesture,  \* the gesture analyzeHand returned for it
    tracker,  \* the HandTracker, its pending promises and frame callbacks
    rec,      \* the GestureRecognizer's tap-detection fields
    now,      \* Date.now()
    tap,      \* what the last detectTap call saw and returned
    call,     \* the last call of GestureRecognizer.process, of the
              \* ToolManager or of GestureCanvasApp.handleGestures
    tools,    \* the ToolManager with the state of its tools
    app       \* the GestureCanvasApp: its draw, pan and hover state

canvasVars == <<canvas, pre, op, steps, run>>
elemVars == <<elem, out>>
handVars == <<hand, gesture, tracker>>
tapVars == <<rec, now, tap>>
toolVars == <<call, tools, app>>
vars ==
    <<canvas, pre, op, steps, run, elem, out, hand, gesture, tracker, rec, now,
      tap, call, tools, app>>

---------------------------------------------------------------------------
(* JavaScript helpers *)

\* a || b on numbers: 0 (and a missing value) is falsy
OrNum(a, b) == IF a # 0 THEN a ELSE b

\* a || b on strings: "" (and a missing value) is falsy
OrStr(a, b) == IF a # "" THEN a ELSE b

\* a || b on arrays: only a missing value is falsy; [] is truthy
OrList(a, b) == a

Min(a, b) == IF a < b THEN a ELSE b
Max(a, b) == IF a > b THEN a ELSE b
Abs(a) == IF a < 0 THEN -a ELSE a

\* the fields an options object / JSON record may carry, all missing
NoOptions ==
    [id |-> 0, type |-> "", x |-> 0, y |-> 0, width |-> 0, height |-> 0,
     rotation |-> 0, strokeColor |-> "", fillColor |-> "", strokeWidth |-> 0,
     opacity |-> 0, cornerRadius |-> 0, startX |-> 0, startY |-> 0,
     endX |-> 0, endY |-> 0, headLength |-> 0, headAngle |-> 0,
     points |-> <<>>]

\* reading an options object: the fields given, every other one missing
Options(given) == given @@ NoOptions

---------------------------------------------------------------------------
(* js/elements.js *)

\* Math.PI / 6, in degrees
HeadAngleDefault == 30

\* class Element: constructor.  newId is the value Utils.generateId() returns.
Element(options, newId) ==
    [id |-> newId,
     type |-> "element",
     x |-> OrNum(options.x, 0),
     y |-> OrNum(options.y, 0),
     width |-> OrNum(options.width, 0),
     height |-> OrNum(options.height, 0),
     rotation |-> OrNum(options.rotation, 0),
     strokeColor |-> OrStr(options.strokeColor, "#1e1e1e"),
     fillColor |-> OrStr(options.fillColor, "transparent"),
     strokeWidth |-> OrNum(options.strokeWidth, 4),
     opacity |-> OrNum(options.opacity, 1),
     selected |-> FALSE,
     locked |-> FALSE]

Rectangle(options, newId) ==
    [Element(options, newId) EXCEPT !.type = "rectangle"]
        @@ [cornerRadius |-> OrNum(options.cornerRadius, 0)]

Circle(options, newId) ==
    [Element(options, newId) EXCEPT !.type = "circle"]

\* Line.updateBounds
LineUpdateBounds(e) ==
    [e EXCEPT !.x = Min(e.startX, e.endX),
              !.y = Min(e.startY, e.endY),
              !.width = Abs(e.endX - e.startX),
              !.height = Abs(e.endY - e.startY)]

Line(options, newId) ==
    LET startX == OrNum(OrNum(options.startX, options.x), 0)
        startY == OrNum(OrNum(options.startY, options.y), 0)
        endX == OrNum(options.endX, startX)
        endY == OrNum(options.endY, startY)
    IN LineUpdateBounds(
           [Element(options, newId) EXCEPT !.type = "line"]
               @@ [startX |-> startX, startY |-> startY,
                   endX |-> endX, endY |-> endY])

Arrow(options, newId) ==
    [Line(options, newId) EXCEPT !.type = "arrow"]
        @@ [headLength |-> OrNum(options.headLength, 15),
            headAngle |-> OrNum(options.headAngle, HeadAngleDefault)]

\* the least of points[i][axis] over i in k..Len(points); axis is "x" or "y"
MinOver(points, axis, k) ==
    LET values == {points[i][axis] : i \in k..Len(points)}
    IN CHOOSE m \in values : \A v \in values : m <= v

\* the greatest of them
MaxOver(points, axis, k) ==
    LET values == {points[i][axis] : i \in k..Len(points)}
    IN CHOOSE m \in values : \A v \in values : m >= v

\* FreehandPath.updateBounds
PathUpdateBounds(e) ==
    IF Len(e.points) = 0 THEN e
    ELSE [e EXCEPT !.x = MinOver(e.points, "x", 1),
                   !.y = MinOver(e.points, "y", 1),
                   !.width = MaxOver(e.points, "x", 1) - MinOver(e.points, "x", 1),
                   !.height = MaxOver(e.points, "y", 1) - MinOver(e.points, "y", 1)]

FreehandPath(options, newId) ==
    LET e == [Element(options, newId) EXCEPT !.type = "freehand"]
                 @@ [points |-> OrList(options.points, <<>>)]
    IN IF Len(e.points) > 0 THEN PathUpdateBounds(e) ELSE e

\* FreehandPath.addPoint
AddPoint(e, x, y) ==
    PathUpdateBounds([e EXCEPT !.points = Append(@, [x |-> x, y |-> y])])

\* Element.move, Line.move, FreehandPath.move
Move(e, dx, dy) ==
    IF e.type \in {"line", "arrow"}
    THEN LineUpdateBounds([e EXCEPT !.startX = @ + dx, !.startY = @ + dy,
                                    !.endX = @ + dx, !.endY = @ + dy])
    ELSE IF e.type = "freehand"
    THEN PathUpdateBounds(
             [e EXCEPT !.points =
                 [i \in 1..Len(@) |-> [x |-> @[i].x + dx, y |-> @[i].y + dy]]])
    ELSE [e EXCEPT !.x = @ + dx, !.y = @ + dy]

\* Element.toJSON
ElementToJSON(e) ==
    [id |-> e.id, type |-> e.type, x |-> e.x, y |-> e.y,
     width |-> e.width, height |-> e.height, rotation |-> e.rotation,
     strokeColor |-> e.strokeColor, fillColor |-> e.fillColor,
     strokeWidth |-> e.strokeWidth, opacity |-> e.opacity]

\* toJSON, as overridden by each class
toJSON(e) ==
    CASE e.type = "rectangle" ->
            ElementToJSON(e) @@ [cornerRadius |-> e.cornerRadius]
      [] e.type = "line" ->
            ElementToJSON(e) @@ [startX |-> e.startX, startY |-> e.startY,
                                 endX |-> e.endX, endY |-> e.endY]
      [] e.type = "arrow" ->
            ElementToJSON(e) @@ [startX |-> e.startX, startY |-> e.startY,
                                 endX |-> e.endX, endY |-> e.endY]
                             @@ [headLength |-> e.headLength,
                                 headAngle |-> e.headAngle]
      [] e.type = "freehand" ->
            ElementToJSON(e) @@
                [points |-> [i \in 1..Len(e.points) |->
                                [x |-> e.points[i].x, y |-> e.points[i].y]]]
      [] OTHER -> ElementToJSON(e)

\* Element.fromJSON: data is handed to the constructor as its options
fromJSON(data, newId) ==
    CASE data.type = "rectangle" -> Rectangle(Options(data), newId)
      [] data.type = "circle" -> Circle(Options(data), newId)
      [] data.type = "line" -> Line(Options(data), newId)
      [] data.type = "arrow" -> Arrow(Options(data), newId)
      [] data.type = "freehand" -> FreehandPath(Options(data), newId)
      [] OTHER -> Element(Options(data), newId)

\* Element.clone: idA is the id clone() writes into the data, idB the one
\* the constructor called by fromJSON generates
clone(e, idA, idB) ==
    fromJSON([toJSON(e) EXCEPT !.id = idA], idB)

---------------------------------------------------------------------------
(* Exact rationals <<num, den>>, den > 0, in lowest terms *)

RECURSIVE GCD(_, _)
GCD(a, b) == IF b = 0 THEN a ELSE GCD(b, a % b)

Rat(n, d) ==
    LET s == IF d < 0 THEN -1 ELSE 1
        g == GCD(Abs(n), Abs(d))
    IN <<(s * n) \div g, (s * d) \div g>>

RInt(n) == <<n, 1>>
RAdd(p, q) == Rat(p[1] * q[2] + q[1] * p[2], p[2] * q[2])
RSub(p, q) == Rat(p[1] * q[2] - q[1] * p[2], p[2] * q[2])
RMul(p, q) == Rat(p[1] * q[1], p[2] * q[2])
RDiv(p, q) == Rat(p[1] * q[2], p[2] * q[1])
RLess(p, q) == p[1] * q[2] < q[1] * p[2]
RMin(p, q) == IF RLess(q, p) THEN q ELSE p
RMax(p, q) == IF RLess(p, q) THEN q ELSE p

\* Utils.clamp
clamp(value, min, max) == RMin(RMax(value, min), max)

---------------------------------------------------------------------------
(* js/canvas.js: class DrawingCanvas *)

maxHistory == 50
minScale == Rat(1, 10)
maxScale == RInt(4)

\* the canvas a constructor call leaves; firstId is the first value
\* Utils.generateId() has not returned yet
NewCanvas(firstId) ==
    [transform |-> [x |-> RInt(0), y |-> RInt(0), scale |-> RInt(1)],
     elements |-> <<>>,
     selectedElement |-> 0,
     history |-> <<>>,
     historyIndex |-> -1,
     events |-> <<>>,        \* the notifications emitted by the last operation
     historyChanged |-> [canUndo |-> FALSE, canRedo |-> FALSE],
                             \* the payload of the last historyChanged
     threw |-> FALSE,        \* an operation raised an error
     nextId |-> firstId]     \* the next value of Utils.generateId()

emit(c, event) == [c EXCEPT !.events = Append(@, event)]

\* position of the object with this id in the element list, 0 if none
\* (Array.indexOf, 1-based)
IndexOf(elements, id) ==
    IF \E i \in 1..Len(elements) : elements[i].id = id
    THEN CHOOSE i \in 1..Len(elements) :
             /\ elements[i].id = id
             /\ \A j \in 1..(i - 1) : elements[j].id # id
    ELSE 0

\* Array.slice(0, end)
SliceTo(s, end) ==
    LET e == IF end < 0 THEN Max(Len(s) + end, 0) ELSE Min(end, Len(s))
    IN SubSeq(s, 1, e)

\* Array.splice(index, 1), index 1-based
RemoveAt(s, index) ==
    SubSeq(s, 1, index - 1) \o SubSeq(s, index + 1, Len(s))

\* this.elements.map(el => el.toJSON())
Serialize(elements) == [i \in 1..Len(elements) |-> toJSON(elements[i])]

\* canUndo off by one
canUndo_FromZero(c) == c.historyIndex >= 0

canUndo(c) == c.historyIndex > 0

canRedo(c) == c.historyIndex < Len(c.history) - 1

emitHistoryChanged(c) ==
    emit([c EXCEPT !.historyChanged =
                       [canUndo |-> canUndo(c), canRedo |-> canRedo(c)]],
         "historyChanged")

\* saveHistory with the cursor advanced also when the oldest entry is evicted
saveHistory_BumpOnEvict(c) ==
    LET pushed == Append(SliceTo(c.history, c.historyIndex + 1),
                         Serialize(c.elements))
        c1 == IF Len(pushed) > maxHistory
              THEN [c EXCEPT !.history = Tail(pushed), !.historyIndex = @ + 1]
              ELSE [c EXCEPT !.history = pushed, !.historyIndex = @ + 1]
    IN emitHistoryChanged(c1)

\* saveHistory that never evicts
saveHistory_NoEvict(c) ==
    LET pushed == Append(SliceTo(c.history, c.historyIndex + 1),
                         Serialize(c.elements))
    IN emitHistoryChanged([c EXCEPT !.history = pushed, !.historyIndex = @ + 1])

\* saveHistory that keeps the redo snapshots
saveHistory_NoTruncate(c) ==
    LET pushed == Append(c.history, Serialize(c.elements))
        c1 == IF Len(pushed) > maxHistory
              THEN [c EXCEPT !.history = Tail(pushed)]
              ELSE [c EXCEPT !.history = pushed, !.historyIndex = @ + 1]
    IN emitHistoryChanged(c1)

saveHistory(c) ==
    LET pushed == Append(SliceTo(c.history, c.historyIndex + 1),
                         Serialize(c.elements))
        c1 == IF Len(pushed) > maxHistory
              THEN [c EXCEPT !.history = Tail(pushed)]
              ELSE [c EXCEPT !.history = pushed, !.historyIndex = @ + 1]
    IN emitHistoryChanged(c1)

\* obj.selected = flag, for the object with this id if it is in the scene
SetSelected(elements, id, flag) ==
    [i \in 1..Len(elements) |->
        IF elements[i].id = id THEN [elements[i] EXCEPT !.selected = flag]
        ELSE elements[i]]

addElement(c, element) ==
    emit(saveHistory([c EXCEPT !.elements = Append(@, element)]),
         "elementAdded")

removeElement(c, id) ==
    LET index == IndexOf(c.elements, id)
    IN IF index # 0
       THEN emit(saveHistory(
                     [c EXCEPT !.elements = RemoveAt(@, index),
                               !.selectedElement = IF @ = id THEN 0 ELSE @]),
                 "elementRemoved")
       ELSE c

\* id = 0 is selectElement(null)
selectElement(c, id) ==
    LET deselected == IF c.selectedElement # 0
                      THEN SetSelected(c.elements, c.selectedElement, FALSE)
                      ELSE c.elements
        selected == IF id # 0 THEN SetSelected(deselected, id, TRUE)
                    ELSE deselected
    IN emit([c EXCEPT !.elements = selected, !.selectedElement = id],
            "selectionChanged")

deselectAll(c) == selectElement(c, 0)

\* clear that takes its snapshot before it empties the scene
clear_SnapshotFirst(c) ==
    emit([saveHistory(c) EXCEPT !.elements = <<>>, !.selectedElement = 0],
         "cleared")

clear(c) ==
    emit(saveHistory([c EXCEPT !.elements = <<>>, !.selectedElement = 0]),
         "cleared")

\* state.map(data => Element.fromJSON(data)): one generated id per element
Deserialize(state, firstId) ==
    [i \in 1..Len(state) |-> fromJSON(state[i], firstId + i - 1)]

restoreFromHistory(c) ==
    IF c.historyIndex < 0 \/ c.historyIndex >= Len(c.history)
    THEN \* history[historyIndex] is undefined: state.map throws
         [c EXCEPT !.threw = TRUE]
    ELSE LET state == c.history[c.historyIndex + 1]
         IN emitHistoryChanged(
                [c EXCEPT !.elements = Deserialize(state, c.nextId),
                          !.nextId = @ + Len(state),
                          !.selectedElement = 0])

undo(c) ==
    IF ~canUndo(c) THEN c
    ELSE LET r == restoreFromHistory([c EXCEPT !.historyIndex = @ - 1])
         IN IF r.threw THEN r ELSE emit(r, "undo")

redo(c) ==
    IF ~canRedo(c) THEN c
    ELSE LET r == restoreFromHistory([c EXCEPT !.historyIndex = @ + 1])
         IN IF r.threw THEN r ELSE emit(r, "redo")

\* DrawingCanvas.toJSON
canvasToJSON(c) ==
    [hasTransform |-> TRUE, transform |-> c.transform,
     hasElements |-> TRUE, elements |-> Serialize(c.elements)]

\* DrawingCanvas.fromJSON
canvasFromJSON(c, data) ==
    LET c1 == IF data.hasTransform
              THEN [c EXCEPT !.transform = data.transform] ELSE c
        c2 == IF data.hasElements
              THEN [c1 EXCEPT !.elements = Deserialize(data.elements, c.nextId),
                              !.nextId = @ + Len(data.elements)]
              ELSE c1
    IN [c2 EXCEPT !.selectedElement = 0,
                  !.history = <<Serialize(c2.elements)>>,
                  !.historyIndex = 0]

screenToCanvas(c, screenX, screenY) ==
    [x |-> RDiv(RSub(screenX, c.transform.x), c.transform.scale),
     y |-> RDiv(RSub(screenY, c.transform.y), c.transform.scale)]

\* a conversion that adds the pan offset before it scales
canvasToScreen_OffsetFirst(c, canvasX, canvasY) ==
    [x |-> RMul(RAdd(canvasX, c.transform.x), c.transform.scale),
     y |-> RMul(RAdd(canvasY, c.transform.y), c.transform.scale)]

canvasToScreen(c, canvasX, canvasY) ==
    [x |-> RAdd(RMul(canvasX, c.transform.scale), c.transform.x),
     y |-> RAdd(RMul(canvasY, c.transform.scale), c.transform.y)]

pan(c, deltaX, deltaY) ==
    emit([c EXCEPT !.transform.x = RAdd(@, deltaX),
                   !.transform.y = RAdd(@, deltaY)],
         "pan")

\* a zoom that does not clamp the new scale
zoom_NoClamp(c, factor, centerX, centerY) ==
    LET oldScale == c.transform.scale
        newScale == RMul(oldScale, factor)
        scaleChange == RDiv(newScale, oldScale)
    IN IF newScale = oldScale THEN c
       ELSE emit([c EXCEPT
                     !.transform.x =
                         RSub(centerX, RMul(RSub(centerX, @), scaleChange)),
                     !.transform.y =
                         RSub(centerY, RMul(RSub(centerY, @), scaleChange)),
                     !.transform.scale = newScale],
                 "zoom")

\* a zoom that changes the scale and leaves the pan offset
zoom_KeepPan(c, factor, centerX, centerY) ==
    LET oldScale == c.transform.scale
        newScale == clamp(RMul(oldScale, factor), minScale, maxScale)
    IN IF newScale = oldScale THEN c
       ELSE emit([c EXCEPT !.transform.scale = newScale], "zoom")

zoom(c, factor, centerX, centerY) ==
    LET oldScale == c.transform.scale
        newScale == clamp(RMul(oldScale, factor), minScale, maxScale)
        scaleChange == RDiv(newScale, oldScale)
    IN IF newScale = oldScale THEN c
       ELSE emit([c EXCEPT
                     !.transform.x =
                         RSub(centerX, RMul(RSub(centerX, @), scaleChange)),
                     !.transform.y =
                         RSub(centerY, RMul(RSub(centerY, @), scaleChange)),
                     !.transform.scale = newScale],
                 "zoom")

setZoom(c, scale, centerX, centerY) ==
    zoom(c, RDiv(scale, c.transform.scale), centerX, centerY)

resetView(c) ==
    emit([c EXCEPT !.transform = [x |-> RInt(0), y |-> RInt(0),
                                  scale |-> RInt(1)]],
         "viewReset")

---------------------------------------------------------------------------
(* The callers of DrawingCanvas: what they pass in *)

\* RectangleTool.onMove: the preview takes the bounds of start..current
\* (Utils.getBounds)
SetBounds(e, p1, p2) ==
    [e EXCEPT !.x = Min(p1.x, p2.x), !.y = Min(p1.y, p2.y),
              !.width = Abs(p2.x - p1.x), !.height = Abs(p2.y - p1.y)]

\* LineTool.onMove / ArrowTool.onMove: the preview's end follows the cursor
SetEnd(e, p) ==
    LineUpdateBounds([e EXCEPT !.endX = p.x, !.endY = p.y])

\* SelectTool.onMove: the dragged element's origin is assigned directly
SetOrigin(e, p) == [e EXCEPT !.x = p.x, !.y = p.y]

Point(x, y) == [x |-> x, y |-> y]

\* the style a tool hands to a constructor (Tool.getStyle)
Style(strokeColor, fillColor, strokeWidth) ==
    [strokeColor |-> strokeColor, fillColor |-> fillColor,
     strokeWidth |-> strokeWidth]

DefaultStyle == Style("#1e1e1e", "transparent", 4)

\* the preview a tool builds in onStart at canvas point p
Preview(tool, style, p, newId) ==
    CASE tool = "rectangle" ->
            Rectangle(Options(style @@ [x |-> p.x, y |-> p.y,
                                        width |-> 0, height |-> 0]), newId)
      [] tool = "circle" ->
            Circle(Options(style @@ [x |-> p.x, y |-> p.y,
                                     width |-> 0, height |-> 0]), newId)
      [] tool = "line" ->
            Line(Options(style @@ [startX |-> p.x, startY |-> p.y,
                                   endX |-> p.x, endY |-> p.y]), newId)
      [] tool = "arrow" ->
            Arrow(Options(style @@ [startX |-> p.x, startY |-> p.y,
                                    endX |-> p.x, endY |-> p.y]), newId)
      [] tool = "freehand" ->
            FreehandPath(Options(style @@ [points |-> <<p>>]), newId)

\* the element a shape tool has built when the drag p -> q ends
Drawn(tool, style, p, q, newId) ==
    LET e == Preview(tool, style, p, newId)
    IN CASE tool \in {"rectangle", "circle"} -> SetBounds(e, p, q)
         [] tool \in {"line", "arrow"} -> SetEnd(e, q)
         [] tool = "freehand" -> AddPoint(AddPoint(e, q.x, p.y), q.x, q.y)

---------------------------------------------------------------------------
(* The scene and its history under calls of the DrawingCanvas methods *)

\* bound: operations called on a canvas in one behaviour
MaxOps == 4

\* the number of snapshots already pushed when the behaviour starts
InitSaves == {0, 1, maxHistory - 1, maxHistory}

\* a new, empty canvas on which saveHistory was called k times (the
\* application calls it once when it starts): k snapshots of the empty scene
Saved(c, k) ==
    [c EXCEPT !.history = [i \in 1..Min(k, maxHistory) |-> <<>>],
              !.historyIndex = Min(k, maxHistory) - 1,
              !.historyChanged = [canUndo |-> Min(k, maxHistory) > 1,
                                  canRedo |-> FALSE]]

\* the elements handed to addElement: what a tool drew
NewElements(newId) ==
    {Drawn("rectangle", DefaultStyle, Point(0, 0), Point(10, 10), newId),
     Drawn("line", DefaultStyle, Point(0, 0), Point(-20, -20), newId)}

\* the data handed to DrawingCanvas.fromJSON
JSONInputs ==
    {[hasTransform |-> TRUE,
      transform |-> [x |-> RInt(10), y |-> RInt(0), scale |-> RInt(2)],
      hasElements |-> TRUE,
      elements |-> <<toJSON(Drawn("circle", DefaultStyle, Point(0, 0),
                                  Point(10, 10), 1))>>],
     [hasTransform |-> FALSE,
      transform |-> [x |-> RInt(0), y |-> RInt(0), scale |-> RInt(1)],
      hasElements |-> FALSE,
      elements |-> <<>>]}

ZoomFactors == {Rat(1, 2), RInt(50)}

NoOp == [name |-> "none", id |-> 0, present |-> FALSE]

\* the canvas at the start of an operation: nothing emitted yet
Fresh(c) == [c EXCEPT !.events = <<>>]

SceneIds(c) == {c.elements[i].id : i \in 1..Len(c.elements)}

\* an operation was called: name(id), leaving the canvas as c
Called(name, id, c) ==
    /\ steps < MaxOps
    /\ steps' = steps + 1
    /\ pre' = Fresh(canvas)
    /\ op' = [name |-> name, id |-> id, present |-> id \in SceneIds(canvas)]
    /\ canvas' = c
    /\ UNCHANGED <<run, elemVars, handVars, tapVars, toolVars>>

AddElement ==
    \E e \in NewElements(canvas.nextId) :
        Called("addElement", e.id,
               addElement([Fresh(canvas) EXCEPT !.nextId = @ + 1], e))

\* removeElement of an element of the scene
RemoveElement ==
    \E id \in SceneIds(canvas) :
        Called("removeElement", id, removeElement(Fresh(canvas), id))

\* removeElement of an element that is not in the scene (a new object)
RemoveAbsent ==
    Called("removeElement", canvas.nextId,
           removeElement([Fresh(canvas) EXCEPT !.nextId = @ + 1],
                         canvas.nextId))

SelectElement ==
    \E id \in SceneIds(canvas) :
        Called("selectElement", id, selectElement(Fresh(canvas), id))

\* selectElement of an element that is not in the scene (a new object)
SelectAbsent ==
    Called("selectElement", canvas.nextId,
           selectElement([Fresh(canvas) EXCEPT !.nextId = @ + 1],
                         canvas.nextId))

DeselectAll == Called("deselectAll", 0, deselectAll(Fresh(canvas)))

Clear == Called("clear", 0, clear(Fresh(canvas)))

SaveHistory == Called("saveHistory", 0, saveHistory(Fresh(canvas)))

Undo == Called("undo", 0, undo(Fresh(canvas)))

Redo == Called("redo", 0, redo(Fresh(canvas)))

FromJSON ==
    \E data \in JSONInputs :
        Called("fromJSON", 0, canvasFromJSON(Fresh(canvas), data))

Pan == Called("pan", 0, pan(Fresh(canvas), RInt(10), RInt(-5)))

Zoom ==
    \E f \in ZoomFactors :
        Called("zoom", 0, zoom(Fresh(canvas), f, RInt(100), RInt(50)))

ResetView == Called("resetView", 0, resetView(Fresh(canvas)))

NoRun == [phase |-> "none", pushes |-> 0, undos |-> 0, offset |-> 0]

InitElem ==
    /\ elem = Element(NoOptions, 1)
    /\ out = [op |-> "none", el |-> Element(NoOptions, 1)]

\* no hand in front of the camera
\* HandTracker after its constructor and initialize: not running, no stream
\* on the video element; no start() is waiting for a promise, no
\* processFrame is waiting for the detector or for an animation frame
NewTracker ==
    [isRunning |-> FALSE,
     srcObject |-> FALSE,
     getUserMedia |-> 0,  \* start() calls waiting for the camera
     play |-> 0,          \* start() calls waiting for videoElement.play()
     sending |-> 0,       \* processFrame calls waiting for hands.send
     scheduled |-> 0,     \* processFrame calls requested for the next frame
     sent |-> 0,          \* frames sent to the detector so far
     starts |-> 0,        \* calls of start() so far
     stops |-> 0,         \* calls of stop() so far
     stopped |-> FALSE,   \* stop() was called, and start() not since
     sentStopped |-> FALSE,  \* a frame was sent while that was so
     event |-> "none"]    \* the last notification emitted

InitHand ==
    /\ hand = <<>>
    /\ gesture = [type |-> "none"]
    /\ tracker = NewTracker

TAP_DURATION == 300
TAP_COOLDOWN == 400

\* null, and a value v, of a field that is null until it is first set
Null == <<>>
Some(v) == <<v>>

\* the tap-detection fields of a GestureRecognizer after construction
NewRecognizer ==
    [lastTapTime |-> 0,
     pointingStartTime |-> Null,
     pointingStartPosition |-> Null,
     wasPointing |-> FALSE]

\* Date.now() when the page starts, in ms: any time of day later than
\* TAP_COOLDOWN after the epoch
StartTime == 1000

\* what is known of the frames seen so far: the last call of detectTap
\* (called, time, pointing, falling, pos, result), whether the frame before
\* it was pointing, the rising edge of the current pointing episode and the
\* taps accepted (lastAccepted after the call, prevAccepted before it)
NoTap ==
    [called |-> FALSE, time |-> 0, pointing |-> FALSE, falling |-> FALSE,
     pos |-> [x |-> 0, y |-> 0], result |-> FALSE,
     riseTime |-> Null, risePos |-> Null,
     prevAccepted |-> Null, lastAccepted |-> Null]

InitTap ==
    /\ rec = NewRecognizer
    /\ now = StartTime
    /\ tap = NoTap

\* process not called yet, no ToolManager constructed
NoCall == [name |-> "none"]
NoTools == [currentTool |-> "none"]
NoApp == [isCurrentlyDrawing |-> FALSE]

InitTools ==
    /\ call = NoCall
    /\ app = NoApp
    /\ tools = NoTools

InitCanvas ==
    /\ \E k \in InitSaves : canvas = Fresh(Saved(NewCanvas(1), k))
    /\ pre = canvas
    /\ op = NoOp
    /\ steps = 0
    /\ run = NoRun
    /\ InitElem /\ InitHand /\ InitTap /\ InitTools

NextCanvas ==
    \/ AddElement \/ RemoveElement \/ RemoveAbsent
    \/ SelectElement \/ SelectAbsent \/ DeselectAll
    \/ Clear \/ SaveHistory \/ Undo \/ Redo \/ FromJSON
    \/ Pan \/ Zoom \/ ResetView

SpecCanvas == InitCanvas /\ [][NextCanvas]_vars

---------------------------------------------------------------------------
(* A long run of snapshot-pushing operations followed by repeated undo *)

\* bound: pushes made beyond maxHistory
MaxExtraPushes == 2

\* bound: undo calls made beyond maxHistory
MaxExtraUndos == 2

\* the k-th snapshot-pushing operation of a run: a fixed rota of
\* addElement, saveHistory (the end of a select-tool drag),
\* removeElement and clear
PushKind(k) ==
    CASE k % 6 = 0 -> "addRectangle"
      [] k % 6 = 1 -> "addLine"
      [] k % 6 = 2 -> "saveHistory"
      [] k % 6 = 3 -> "removeElement"
      [] k % 6 = 4 -> "addRectangle"
      [] OTHER -> "clear"

Pushed(kind, c) ==
    CASE kind = "addRectangle" ->
            addElement([c EXCEPT !.nextId = @ + 1],
                       Drawn("rectangle", DefaultStyle, Point(0, 0),
                             Point(10, 10), c.nextId))
      [] kind = "addLine" ->
            addElement([c EXCEPT !.nextId = @ + 1],
                       Drawn("line", DefaultStyle, Point(0, 0),
                             Point(-20, -20), c.nextId))
      [] kind = "removeElement" /\ Len(c.elements) > 0 ->
            removeElement(c, c.elements[1].id)
      [] kind = "clear" -> clear(c)
      [] OTHER -> saveHistory(c)

RunPush ==
    /\ run.phase = "push"
    /\ run.pushes < maxHistory + MaxExtraPushes
    /\ canvas' = Pushed(PushKind(run.pushes + run.offset), Fresh(canvas))
    /\ pre' = Fresh(canvas)
    /\ op' = [name |-> "push", id |-> 0, present |-> FALSE]
    /\ run' = [run EXCEPT !.pushes = @ + 1]
    /\ UNCHANGED <<steps, elemVars, handVars, tapVars, toolVars>>

RunUndo ==
    /\ run.pushes > 0
    /\ run.undos < maxHistory + MaxExtraUndos
    /\ canvas' = undo(Fresh(canvas))
    /\ pre' = Fresh(canvas)
    /\ op' = [name |-> "undo", id |-> 0, present |-> FALSE]
    /\ run' = [run EXCEPT !.phase = "undo", !.undos = @ + 1]
    /\ UNCHANGED <<steps, elemVars, handVars, tapVars, toolVars>>

InitHistory ==
    /\ canvas = NewCanvas(1)
    /\ pre = canvas
    /\ op = NoOp
    /\ steps = 0
    /\ \E o \in 0..5 :
           run = [phase |-> "push", pushes |-> 0, undos |-> 0, offset |-> o]
    /\ InitElem /\ InitHand /\ InitTap /\ InitTools

NextHistory == RunPush \/ RunUndo

SpecHistory == InitHistory /\ [][NextHistory]_vars

---------------------------------------------------------------------------
(* Properties of the scene and its history *)

\* elements, selection, history and cursor are the same in a and b
SameScene(a, b) ==
    /\ a.elements = b.elements
    /\ a.selectedElement = b.selectedElement
    /\ a.history = b.history
    /\ a.historyIndex = b.historyIndex

\* the last operation reached saveHistory
PushedSnapshot ==
    \/ op.name \in {"addElement", "clear", "saveHistory", "push"}
    \/ op.name = "removeElement" /\ op.present

\* C1, as claimed: in every reachable state of DrawingCanvas, a newly
\* constructed canvas included, 0 <= historyIndex < history.length.
C1_CursorInRange ==
    /\ 0 <= canvas.historyIndex
    /\ canvas.historyIndex < Len(canvas.history)

\* C1, amended: -1 <= historyIndex < history.length in every reachable
\* state; historyIndex is -1 exactly while the history is empty, which is
\* the case from construction until the first snapshot is pushed or
\* fromJSON is called; from then on 0 <= historyIndex < history.length.
C1_CursorInRangeOnceSaved ==
    /\ -1 <= canvas.historyIndex
    /\ canvas.historyIndex < Len(canvas.history)
    /\ (canvas.historyIndex = -1 <=> Len(canvas.history) = 0)
    /\ (PushedSnapshot \/ op.name = "fromJSON" => 0 <= canvas.historyIndex)
    /\ (0 <= pre.historyIndex => 0 <= canvas.historyIndex)

\* an undo took the cursor down to the first snapshot
C1_Witness ==
    /\ op.name = "undo"
    /\ pre.historyIndex = 1
    /\ canvas.historyIndex = 0

\* the scene is what deserialising this snapshot gives: as many elements,
\* of the same types, in the same order
Restores(elements, snapshot) ==
    /\ Len(elements) = Len(snapshot)
    /\ \A i \in 1..Len(snapshot) : elements[i].type = snapshot[i].type

\* C2: in a run of more than maxHistory snapshot-pushing operations
\* followed by undo calls, history.length never exceeds maxHistory, no
\* call raises an error, every undo that takes effect restores history[i]
\* with 0 <= i < history.length, and canUndo() is true before the
\* (maxHistory - 1)-th undo and false from it on.
C2_HistoryBounds ==
    /\ Len(canvas.history) <= maxHistory
    /\ ~canvas.threw
    /\ (op.name = "undo" /\ canvas.events # <<>> =>
            /\ 0 <= canvas.historyIndex
            /\ canvas.historyIndex < Len(canvas.history)
            /\ canvas.historyIndex = pre.historyIndex - 1
            /\ Restores(canvas.elements,
                        canvas.history[canvas.historyIndex + 1]))
    /\ (run.phase = "undo" /\ run.pushes > maxHistory =>
            /\ canvas.history = pre.history
            /\ (run.undos < maxHistory - 1 => canUndo(canvas))
            /\ (run.undos >= maxHistory - 1 =>
                    ~canUndo(canvas) /\ canvas.historyIndex = 0))

\* undo was called once more after canUndo() had become false
C2_Witness ==
    /\ run.phase = "undo"
    /\ run.pushes > maxHistory
    /\ run.undos = maxHistory
    /\ ~canUndo(canvas)

\* C3: right after every snapshot push canRedo() is false and
\* historyIndex = history.length - 1; the snapshots before the new one are
\* those up to the previous cursor (less the oldest when it was evicted),
\* so every snapshot beyond the previous cursor is gone.
C3_PushDropsRedo ==
    PushedSnapshot =>
        /\ ~canRedo(canvas)
        /\ canvas.historyIndex = Len(canvas.history) - 1
        /\ \/ SubSeq(canvas.history, 1, Len(canvas.history) - 1)
                  = SubSeq(pre.history, 1, pre.historyIndex + 1)
           \/ /\ Len(canvas.history) = maxHistory
              /\ SubSeq(canvas.history, 1, Len(canvas.history) - 1)
                     = SubSeq(pre.history, 2, pre.historyIndex + 1)

\* a push made after two undos, with two redo snapshots to drop
C3_Witness ==
    /\ op.name = "addElement"
    /\ pre.historyIndex = Len(pre.history) - 3
    /\ pre.history[Len(pre.history)] # <<>>

\* the last operation pushed exactly one snapshot, the serialised scene
PushedOne ==
    LET h == canvas.history
        n == Len(h)
    IN /\ n >= 1
       /\ h[n] = Serialize(canvas.elements)
       /\ canvas.historyIndex = n - 1
       /\ \/ /\ n = pre.historyIndex + 2
             /\ SubSeq(h, 1, n - 1) = SubSeq(pre.history, 1, pre.historyIndex + 1)
          \/ /\ n = maxHistory
             /\ pre.historyIndex = maxHistory - 1
             /\ SubSeq(h, 1, n - 1) = SubSeq(pre.history, 2, maxHistory)

\* C4: addElement, removeElement of an element of the scene and clear each
\* push exactly one snapshot, equal to the serialised element list after
\* the operation; selectElement, deselectAll, pan, zoom and resetView leave
\* history and historyIndex unchanged.
C4_SnapshotPerMutation ==
    /\ (op.name = "addElement" =>
            /\ Len(canvas.elements) = Len(pre.elements) + 1
            /\ PushedOne)
    /\ (op.name = "removeElement" /\ op.present =>
            /\ Len(canvas.elements) = Len(pre.elements) - 1
            /\ PushedOne)
    /\ (op.name = "clear" => canvas.elements = <<>> /\ PushedOne)
    /\ (op.name \in {"selectElement", "deselectAll", "pan", "zoom", "resetView"} =>
            /\ canvas.history = pre.history
            /\ canvas.historyIndex = pre.historyIndex)

\* clear of a scene that holds elements, pushed onto a full history
C4_Witness ==
    /\ op.name = "clear"
    /\ Len(pre.elements) > 0
    /\ Len(pre.history) = maxHistory
    /\ pre.historyIndex = maxHistory - 1

\* C5: undo() with nothing to undo and redo() with nothing to redo, also on
\* a newly constructed canvas, change neither elements, selection, history
\* nor historyIndex, emit no notification and raise no error.
C5_BoundaryNoOp ==
    (\/ op.name = "undo" /\ pre.historyIndex <= 0
     \/ op.name = "redo" /\ pre.historyIndex >= Len(pre.history) - 1) =>
        /\ SameScene(pre, canvas)
        /\ canvas.events = <<>>
        /\ ~canvas.threw

\* undo on a canvas with exactly one snapshot, after something was selected
C5_Witness ==
    /\ op.name = "undo"
    /\ pre.historyIndex = 0
    /\ Len(pre.history) = 1
    /\ pre.selectedElement # 0

\* C6, as claimed: removeElement(e) and selectElement(e) for an e that is
\* not in the element list change neither elements, selectedElement, any
\* selected flag nor the history, and emit no notification.
C6_AbsentNoOp ==
    op.name \in {"removeElement", "selectElement"} /\ ~op.present =>
        /\ SameScene(pre, canvas)
        /\ canvas.events = <<>>

---------------------------------------------------------------------------
(* One element: built by a tool, reshaped, moved, serialised and reloaded *)

\* bound: reshaping and moving calls made on one element
MaxEdits == 2

\* bound: points of a freehand path
MaxPoints == 3

Coords == {-20, 0, 10}

Points == {Point(x, y) : x \in Coords, y \in Coords}

Tools == {"rectangle", "circle", "line", "arrow", "freehand"}

Styles == {DefaultStyle, Style("#e03131", "#ffc9c9", 2)}

NoOut == [op |-> "none", el |-> Element(NoOptions, 1)]

\* the ids Utils.generateId() returns after e was built: never one in use
FreshId(e, k) == e.id + k

InitElement ==
    /\ \E tool \in Tools, style \in Styles, p \in Points :
           elem = Preview(tool, style, p, 1)
    /\ out = NoOut
    /\ canvas = NewCanvas(1) /\ pre = canvas /\ op = NoOp /\ steps = 0
    /\ run = NoRun
    /\ InitHand /\ InitTap /\ InitTools

\* a shape tool's onMove with the cursor at canvas point q; the rectangle
\* and circle tools keep the start point, here the preview's first corner
ToolMove ==
    /\ steps < MaxEdits
    /\ \E q \in Points :
           elem' = CASE elem.type \in {"rectangle", "circle"} ->
                           SetBounds(elem, Point(elem.x, elem.y), q)
                     [] elem.type \in {"line", "arrow"} -> SetEnd(elem, q)
                     [] OTHER ->
                           IF Len(elem.points) < MaxPoints
                           THEN AddPoint(elem, q.x, q.y) ELSE elem
    /\ out' = NoOut
    /\ steps' = steps + 1
    /\ UNCHANGED <<canvas, pre, op, run, handVars, tapVars, toolVars>>

\* element.move(dx, dy)
MoveBy ==
    /\ steps < MaxEdits
    /\ \E d \in {Point(10, 0), Point(-10, 10)} : elem' = Move(elem, d.x, d.y)
    /\ out' = NoOut
    /\ steps' = steps + 1
    /\ UNCHANGED <<canvas, pre, op, run, handVars, tapVars, toolVars>>

\* Element.fromJSON(elem.toJSON())
RoundTrip ==
    /\ out' = [op |-> "roundTrip", el |-> fromJSON(toJSON(elem), FreshId(elem, 1))]
    /\ UNCHANGED <<elem, canvasVars, handVars, tapVars, toolVars>>

\* elem.clone()
Clone ==
    /\ out' = [op |-> "clone",
               el |-> clone(elem, FreshId(elem, 1), FreshId(elem, 2))]
    /\ UNCHANGED <<elem, canvasVars, handVars, tapVars, toolVars>>

NextElement == ToolMove \/ MoveBy \/ RoundTrip \/ Clone

SpecElement == InitElement /\ [][NextElement]_vars

SameGeometry(a, b) ==
    /\ a.x = b.x /\ a.y = b.y /\ a.width = b.width /\ a.height = b.height
    /\ (a.type \in {"line", "arrow"} =>
            /\ a.startX = b.startX /\ a.startY = b.startY
            /\ a.endX = b.endX /\ a.endY = b.endY)
    /\ (a.type = "freehand" => a.points = b.points)

SameStyle(a, b) ==
    /\ a.strokeColor = b.strokeColor
    /\ a.fillColor = b.fillColor
    /\ a.strokeWidth = b.strokeWidth
    /\ a.opacity = b.opacity

\* C7, as claimed: for every element e of every type,
\* Element.fromJSON(e.toJSON()) has the type, the geometry (bounds; start
\* and end point of a line or arrow, also at coordinate 0; point list of a
\* freehand path) and the style of e.
C7_RoundTrip ==
    out.op = "roundTrip" =>
        /\ out.el.type = elem.type
        /\ SameGeometry(out.el, elem)
        /\ SameStyle(out.el, elem)

\* C8, as claimed: Element.fromJSON(e.toJSON()).id = e.id; only clone()
\* yields an element with a new id.
C8_ReloadKeepsId ==
    /\ (out.op = "roundTrip" => out.el.id = elem.id)
    /\ (out.op = "clone" => out.el.id # elem.id)

---------------------------------------------------------------------------
(* GestureRecognizer: classifying one hand *)

\* the landmark indices (this.LANDMARKS)
WRIST == 0
THUMB_TIP == 4
INDEX_MCP == 5
INDEX_PIP == 6
INDEX_TIP == 8
MIDDLE_MCP == 9
MIDDLE_PIP == 10
MIDDLE_TIP == 12
RING_MCP == 13
RING_PIP == 14
RING_TIP == 16
PINKY_MCP == 17
PINKY_PIP == 18
PINKY_TIP == 20

\* the square of Utils.distance(p1, p2)
SqDistance(p1, p2) ==
    (p2.x - p1.x) * (p2.x - p1.x) + (p2.y - p1.y) * (p2.y - p1.y)

\* isExtended: tip.y < pip.y + 0.02 and tipDist > mcpDist * 0.85; the
\* distances are compared by their squares, 0.85^2 = 289/400
isExtended(landmarks, tipIdx, pipIdx, mcpIdx) ==
    LET tip == landmarks[tipIdx]
        pip == landmarks[pipIdx]
        mcp == landmarks[mcpIdx]
        wrist == landmarks[WRIST]
        tipAbovePip == tip.y < pip.y + 2
    IN /\ tipAbovePip
       /\ 400 * SqDistance(tip, wrist) > 289 * SqDistance(mcp, wrist)

\* isThumbExtended: dist > 0.08
isThumbExtended(landmarks) ==
    SqDistance(landmarks[THUMB_TIP], landmarks[INDEX_MCP]) > 8 * 8

getFingerStates(landmarks) ==
    [thumb |-> isThumbExtended(landmarks),
     index |-> isExtended(landmarks, INDEX_TIP, INDEX_PIP, INDEX_MCP),
     middle |-> isExtended(landmarks, MIDDLE_TIP, MIDDLE_PIP, MIDDLE_MCP),
     ring |-> isExtended(landmarks, RING_TIP, RING_PIP, RING_MCP),
     pinky |-> isExtended(landmarks, PINKY_TIP, PINKY_PIP, PINKY_MCP)]

RECURSIVE SumZ(_, _, _)
\* the sum of z^power over the landmarks k..20
SumZ(landmarks, power, k) ==
    LET z == landmarks[k].z
        v == IF power = 1 THEN z ELSE z * z
    IN IF k = 20 THEN v ELSE v + SumZ(landmarks, power, k + 1)

\* calculateConfidence: max(0, 1 - variance * 10); with n = 21 landmarks
\* and z in hundredths the variance is (n * sum z^2 - (sum z)^2) / (n^2 * 10^4)
calculateConfidence(landmarks) ==
    LET n == 21
        num == n * SumZ(landmarks, 2, 0)
                   - SumZ(landmarks, 1, 0) * SumZ(landmarks, 1, 0)
    IN RMax(RInt(0), RSub(RInt(1), Rat(num, n * n * 1000)))

\* pointing that looks at the index finger alone
IsPointing_IndexAlone(fingerStates) == fingerStates.index

IsOpenPalm(fingerStates) ==
    fingerStates.index /\ fingerStates.middle
        /\ fingerStates.ring /\ fingerStates.pinky

IsFist(fingerStates) ==
    ~fingerStates.index /\ ~fingerStates.middle
        /\ ~fingerStates.ring /\ ~fingerStates.pinky

IsPointing(fingerStates) ==
    fingerStates.index /\ ~fingerStates.middle
        /\ ~fingerStates.ring /\ ~fingerStates.pinky

analyzeHand(landmarks) ==
    LET indexTip == landmarks[INDEX_TIP]
        palmCenter == landmarks[MIDDLE_MCP]
        fingerStates == getFingerStates(landmarks)
        isOpenPalm == IsOpenPalm(fingerStates)
        isFist == IsFist(fingerStates)
        isPointing == IsPointing(fingerStates)
        cursorPosition ==
            IF isOpenPalm
            THEN [x |-> 100 - palmCenter.x, y |-> palmCenter.y]
            ELSE [x |-> 100 - indexTip.x, y |-> indexTip.y]
        gestureType ==
            IF isFist THEN "fist"
            ELSE IF isOpenPalm THEN "palm"
            ELSE IF isPointing THEN "point"
            ELSE "idle"
    IN [type |-> gestureType,
        cursorPosition |-> cursorPosition,
        isOpenPalm |-> isOpenPalm,
        isFist |-> isFist,
        isPointing |-> isPointing,
        isDrawing |-> isPointing,
        isPanning |-> isOpenPalm,
        isTap |-> FALSE,
        fingerStates |-> fingerStates,
        confidence |-> calculateConfidence(landmarks)]

---------------------------------------------------------------------------
(* Hands: 21 landmarks, in hundredths of the frame *)

L(x, y) == [x |-> x, y |-> y, z |-> 0]

\* where a fingertip is, relative to the finger's PIP joint: well above it,
\* just inside the 0.02 tolerance, just outside it, and curled below it
TipOffsets == {-20, 1, 2, 15}

\* where the tip of the thumb is: away from the index MCP, or next to it
ThumbTips == {L(25, 62), L(38, 62)}

\* where the index finger is, across the frame
IndexXs == {40, 45, 50}

\* an upright hand: wrist at the bottom, the index finger at x = ix, each
\* fingertip at the given offset from its PIP joint
Hand(ix, thumbTip, indexOff, middleOff, ringOff, pinkyOff) ==
    <<L(50, 90),
      L(42, 82), L(35, 75), L(30, 68), thumbTip,
      L(ix, 60), L(ix, 50), L(ix, 45), L(ix, 50 + indexOff),
      L(50, 58), L(50, 47), L(50, 42), L(50, 47 + middleOff),
      L(58, 60), L(58, 50), L(58, 45), L(58, 50 + ringOff),
      L(65, 64), L(65, 56), L(65, 52), L(65, 56 + pinkyOff)>>

\* landmarks are indexed from 0 in the source
Landmarks(h) == [i \in 0..20 |-> h[i + 1]]

Hands ==
    {Landmarks(Hand(ix, t, i, m, r, p)) :
        ix \in IndexXs, t \in ThumbTips,
        i \in TipOffsets, m \in TipOffsets, r \in TipOffsets, p \in TipOffsets}

NoHand == <<>>
NoGesture == [type |-> "none"]

\* a hand is in front of the camera, not yet analyzed
InitAnalyze ==
    /\ hand \in Hands
    /\ gesture = NoGesture
    /\ tracker = NewTracker
    /\ canvas = NewCanvas(1) /\ pre = canvas /\ op = NoOp /\ steps = 0
    /\ run = NoRun
    /\ InitElem /\ InitTap /\ InitTools

\* analyzeHand is called on the landmarks of a hand
AnalyzeHand ==
    /\ gesture = NoGesture
    /\ gesture' = analyzeHand(hand)
    /\ UNCHANGED <<hand, tracker, canvasVars, elemVars, tapVars, toolVars>>

NextAnalyze == AnalyzeHand

SpecAnalyze == InitAnalyze /\ [][NextAnalyze]_vars

\* the non-thumb fingers that are extended, by the geometry of the hand
ExtendedFingers ==
    {f \in {"index", "middle", "ring", "pinky"} :
        LET tip == CASE f = "index" -> INDEX_TIP [] f = "middle" -> MIDDLE_TIP
                     [] f = "ring" -> RING_TIP [] OTHER -> PINKY_TIP
        IN isExtended(hand, tip, tip - 2, tip - 3)}

\* C9: for every combination of the four non-thumb finger states
\* analyzeHand yields fist iff all four are curled, palm iff all four are
\* extended, point iff only the index is extended, idle otherwise; isFist,
\* isOpenPalm and isPointing are mutually exclusive and each is true iff
\* type is the corresponding value.
C9_Classification ==
    gesture.type # "none" =>
        /\ gesture.fingerStates.index = ("index" \in ExtendedFingers)
        /\ gesture.fingerStates.middle = ("middle" \in ExtendedFingers)
        /\ gesture.fingerStates.ring = ("ring" \in ExtendedFingers)
        /\ gesture.fingerStates.pinky = ("pinky" \in ExtendedFingers)
        /\ gesture.type \in {"fist", "palm", "point", "idle"}
        /\ (gesture.type = "fist" <=> ExtendedFingers = {})
        /\ (gesture.type = "palm" <=>
                ExtendedFingers = {"index", "middle", "ring", "pinky"})
        /\ (gesture.type = "point" <=> ExtendedFingers = {"index"})
        /\ (gesture.isFist <=> gesture.type = "fist")
        /\ (gesture.isOpenPalm <=> gesture.type = "palm")
        /\ (gesture.isPointing <=> gesture.type = "point")
        /\ ~(gesture.isFist /\ gesture.isOpenPalm)
        /\ ~(gesture.isFist /\ gesture.isPointing)
        /\ ~(gesture.isOpenPalm /\ gesture.isPointing)

\* index and middle finger extended, ring and pinky curled: idle
C9_Witness ==
    /\ gesture.type = "idle"
    /\ ExtendedFingers = {"index", "middle"}

---------------------------------------------------------------------------
(* GestureRecognizer: detecting a tap *)

\* a field that is null, or 0, is falsy
Truthy(field) == field # Null /\ field[1] # 0

\* a tap that may last exactly TAP_DURATION
IsTap_DurationInclusive(duration, sqMovement, timeSinceLastTap) ==
    /\ duration <= TAP_DURATION
    /\ sqMovement < 10 * 10
    /\ timeSinceLastTap > TAP_COOLDOWN

\* short duration, small movement (movement < 0.1, compared by the
\* squares), and cooldown passed
IsTap(duration, sqMovement, timeSinceLastTap) ==
    /\ duration < TAP_DURATION
    /\ sqMovement < 10 * 10
    /\ timeSinceLastTap > TAP_COOLDOWN

\* detectTap(gesture) at the time t: the recognizer after the call, and
\* the value returned
detectTap(r, g, t) ==
    LET isPointing == g.isPointing
        r1 == IF isPointing /\ ~r.wasPointing
              THEN [r EXCEPT !.pointingStartTime = Some(t),
                             !.pointingStartPosition = Some(g.cursorPosition)]
              ELSE r
        stopped == ~isPointing /\ r1.wasPointing /\ Truthy(r1.pointingStartTime)
        duration == t - r1.pointingStartTime[1]
        timeSinceLastTap == t - r1.lastTapTime
        sqMovement ==
            IF r1.pointingStartPosition # Null
            THEN SqDistance(r1.pointingStartPosition[1], g.cursorPosition)
            ELSE 0
    IN IF stopped /\ IsTap(duration, sqMovement, timeSinceLastTap)
       THEN [rec |-> [r1 EXCEPT !.lastTapTime = t,
                                !.wasPointing = isPointing,
                                !.pointingStartTime = Null],
             result |-> TRUE]
       ELSE [rec |-> [r1 EXCEPT !.wasPointing = isPointing],
             result |-> FALSE]

\* a reset that forgets nothing of the pointing episode
resetState_KeepsEpisode(r) == r

resetState(r) ==
    [r EXCEPT !.pointingStartTime = Null, !.wasPointing = FALSE]

\* the frames come TickMs apart, MaxTicks of them
TickMs == 50
MaxTicks == 10

\* a thumb held away from the palm
ThumbOut == L(25, 62)

\* the hands shown to the camera: pointing and idle (index and middle
\* finger up) with the index finger at each place, a fist, an open palm
TapHands ==
    {Landmarks(Hand(ix, ThumbOut, -20, 15, 15, 15)) : ix \in IndexXs}
        \cup {Landmarks(Hand(ix, ThumbOut, -20, -20, 15, 15)) : ix \in IndexXs}
        \cup {Landmarks(Hand(40, ThumbOut, 15, 15, 15, 15)),
              Landmarks(Hand(40, ThumbOut, -20, -20, -20, -20))}

\* each of them with what analyzeHand makes of it
TapFrames == {[hand |-> h, gesture |-> analyzeHand(h)] : h \in TapHands}

InitDetect ==
    /\ InitHand /\ InitTap /\ InitTools
    /\ canvas = NewCanvas(1) /\ pre = canvas /\ op = NoOp /\ steps = 0
    /\ run = NoRun
    /\ InitElem

\* time passes between two frames
Tick ==
    /\ now < StartTime + MaxTicks * TickMs
    /\ now' = now + TickMs
    /\ UNCHANGED <<rec, tap, handVars, canvasVars, elemVars, toolVars>>

\* process(hands) with a hand: analyzeHand, then detectTap
DetectTap ==
    /\ \E f \in TapFrames :
           LET g == f.gesture
               d == detectTap(rec, g, now)
               rising == g.isPointing /\ ~tap.pointing
           IN /\ hand' = f.hand
              /\ gesture' = [g EXCEPT !.isTap = d.result]
              /\ rec' = d.rec
              /\ tap' = [called |-> TRUE,
                         time |-> now,
                         pointing |-> g.isPointing,
                         falling |-> ~g.isPointing /\ tap.pointing,
                         pos |-> g.cursorPosition,
                         result |-> d.result,
                         riseTime |-> IF rising THEN Some(now)
                                      ELSE tap.riseTime,
                         risePos |-> IF rising THEN Some(g.cursorPosition)
                                     ELSE tap.risePos,
                         prevAccepted |-> tap.lastAccepted,
                         lastAccepted |-> IF d.result THEN Some(now)
                                          ELSE tap.lastAccepted]
    /\ UNCHANGED <<now, tracker, canvasVars, elemVars, toolVars>>

\* process(hands) with no hand: resetState
NoHands ==
    /\ rec' = resetState(rec)
    /\ hand' = NoHand
    /\ gesture' = NoGesture
    /\ tap' = [tap EXCEPT !.called = FALSE, !.pointing = FALSE,
                          !.falling = FALSE, !.result = FALSE]
    /\ UNCHANGED <<now, tracker, canvasVars, elemVars, toolVars>>

NextDetect == Tick \/ DetectTap \/ NoHands

SpecDetect == InitDetect /\ [][NextDetect]_vars

\* on a falling edge: the time since the rising edge, the square of the
\* distance from the cursor at the rising edge, the time since the last
\* accepted tap (none: longer than any cooldown)
SinceRise == tap.time - tap.riseTime[1]
SqMoved == SqDistance(tap.risePos[1], tap.pos)
CooledDown ==
    tap.prevAccepted = Null \/ tap.time - tap.prevAccepted[1] > 400

\* C10: on a falling edge of the pointing flag detectTap returns true iff
\* the time since the rising edge is < 300 ms and the cursor is less than
\* 0.1 from where it was at the rising edge and the last accepted tap is
\* more than 400 ms ago; a pointing of 250 ms that moved 0.05 is a tap, one
\* of 400 ms is none, and a tap 200 ms after an accepted one is rejected.
C10_TapOnFallingEdge ==
    tap.called /\ tap.falling =>
        /\ tap.result <=> (SinceRise < 300 /\ SqMoved < 10 * 10 /\ CooledDown)
        /\ SinceRise = 250 /\ SqMoved = 5 * 5 /\ CooledDown => tap.result
        /\ SinceRise = 400 => ~tap.result
        /\ tap.prevAccepted # Null /\ tap.time - tap.prevAccepted[1] = 200
               => ~tap.result

\* a second pointing, short and still, that ends 200 ms after an accepted
\* tap and is rejected
C10_Witness ==
    /\ tap.called /\ tap.falling /\ ~tap.result
    /\ SinceRise < 300 /\ SqMoved = 5 * 5
    /\ tap.prevAccepted # Null /\ tap.time - tap.prevAccepted[1] = 200

\* C11: a tap is reported on the edge only: the frame that reports isTap is
\* not pointing and the frame processed before it was a frame with a
\* pointing hand; so a pointing frame never reports a tap, an episode
\* reports at most one, and the frame after a no-hand frame reports none.
C11_TapOnEdgeOnly ==
    [][(now' = now /\ hand' # NoHand /\ gesture'.isTap) =>
           /\ ~gesture'.isPointing
           /\ hand # NoHand
           /\ gesture.isPointing]_vars

\* a frame that reports a tap, the first after a pointing episode
C11_Witness ==
    /\ hand # NoHand /\ gesture.isTap
    /\ tap.called /\ tap.falling /\ tap.result

---------------------------------------------------------------------------
(* GestureRecognizer.process *)

maxPositionHistory == 8
maxPalmHistory == 12
maxGestureHistory == 20

\* a GestureRecognizer after construction; positions in hundredths of the
\* frame, as exact fractions once smoothed
NewGestureRecognizer ==
    [lastTapTime |-> 0,
     pointingStartTime |-> Null,
     pointingStartPosition |-> Null,
     wasPointing |-> FALSE,
     previousGestureType |-> "null",
     gestureHistory |-> <<>>,
     smoothedPosition |-> [x |-> RInt(50), y |-> RInt(50)],
     positionHistory |-> <<>>,
     palmPositionHistory |-> <<>>,
     twoHandState |-> [active |-> FALSE, initialDistance |-> Null],
     events |-> <<>>]

\* Utils.lerp
lerp(start, end, t) == RAdd(start, RMul(RSub(end, start), t))

\* push onto a history that holds at most max entries
PushCapped(history, entry, max) ==
    LET pushed == Append(history, entry)
    IN IF Len(pushed) > max THEN Tail(pushed) ELSE pushed

RECURSIVE WeightedSum(_, _, _, _)
\* the sum over i >= k of history[i][axis] * weight(i), the weights being
\* i (linear) or i * i (quadratic), i counted from 1; axis "w" sums the weights
WeightedSum(history, axis, quadratic, k) ==
    IF k > Len(history) THEN 0
    ELSE LET weight == IF quadratic THEN k * k ELSE k
             v == IF axis = "w" THEN 1 ELSE history[k][axis]
         IN v * weight + WeightedSum(history, axis, quadratic, k + 1)

\* the weighted moving average, then the lerp towards it by t
Smoothed(r, history, quadratic, t) ==
    LET totalWeight == WeightedSum(history, "w", quadratic, 1)
        smoothedX == Rat(WeightedSum(history, "x", quadratic, 1), totalWeight)
        smoothedY == Rat(WeightedSum(history, "y", quadratic, 1), totalWeight)
    IN [x |-> lerp(r.smoothedPosition.x, smoothedX, t),
        y |-> lerp(r.smoothedPosition.y, smoothedY, t)]

\* smoothedPosition scaled to the canvas: positions are hundredths
Scaled(position, canvasWidth, canvasHeight) ==
    [x |-> RMul(position.x, Rat(canvasWidth, 100)),
     y |-> RMul(position.y, Rat(canvasHeight, 100))]

\* smoothPosition: the recognizer after the call and the position returned
smoothPosition(r, rawPosition, canvasWidth, canvasHeight) ==
    LET history == PushCapped(r.positionHistory, rawPosition,
                              maxPositionHistory)
        position == Smoothed(r, history, FALSE, Rat(1, 2))
    IN [rec |-> [r EXCEPT !.positionHistory = history,
                          !.smoothedPosition = position],
        position |-> Scaled(position, canvasWidth, canvasHeight)]

smoothPalmPosition(r, rawPosition, canvasWidth, canvasHeight) ==
    LET history == PushCapped(r.palmPositionHistory, rawPosition,
                              maxPalmHistory)
        position == Smoothed(r, history, TRUE, Rat(1, 4))
    IN [rec |-> [r EXCEPT !.palmPositionHistory = history,
                          !.smoothedPosition = position],
        position |-> Scaled(position, canvasWidth, canvasHeight)]

\* a reset that also clears the smoothing state
resetAll_ClearsSmoothing(r) ==
    [resetState(r) EXCEPT !.positionHistory = <<>>,
                          !.palmPositionHistory = <<>>]

\* resetState on the whole recognizer
resetAll(r) ==
    [resetState(r) EXCEPT !.previousGestureType = "null",
                          !.twoHandState = [active |-> FALSE,
                                            initialDistance |-> Null]]

\* emit(event) of the recognizer
emitGesture(r, event) == [r EXCEPT !.events = Append(@, event)]

emitGestureEvents(r, g) ==
    LET r1 == IF g.isTap THEN emitGesture(r, "tap") ELSE r
        r2 == IF g.isFist THEN emitGesture(r1, "fist") ELSE r1
    IN emitGesture(r2, "move")

\* the landmarks analyzeHand and getFingerStates read a field of; reading
\* a field of one that is missing throws a TypeError
FieldsRead ==
    {WRIST, THUMB_TIP, INDEX_MCP, INDEX_PIP, INDEX_TIP, MIDDLE_MCP,
     MIDDLE_PIP, MIDDLE_TIP, RING_MCP, RING_PIP, RING_TIP, PINKY_MCP,
     PINKY_PIP, PINKY_TIP}

analyzeHandThrows(landmarks) == ~(FieldsRead \subseteq DOMAIN landmarks)

\* what process returns when it returns null
NullGesture == [type |-> "null"]

\* the last hand of the list
FirstHand_Last(hands) == hands[Len(hands)]

\* hands[0]
FirstHand(hands) == hands[1]

\* the end of process: the gesture goes into gestureHistory, its events
\* are emitted and its type is remembered
Tracked(r, g, t) ==
    LET r1 == [r EXCEPT !.gestureHistory =
                            PushCapped(@, [type |-> g.type, timestamp |-> t],
                                       maxGestureHistory)]
    IN [rec |-> [emitGestureEvents(r1, g) EXCEPT
                     !.previousGestureType = g.type],
        threw |-> FALSE,
        returned |-> g]

\* gesture.isTap = this.detectTap(gesture), and what follows
Tapped(r, g, t) ==
    LET d == detectTap(r, g, t)
    IN Tracked(d.rec, [isTap |-> d.result] @@ g, t)

\* gesture.smoothedPosition = the smoothed cursor position, and what follows
Positioned(r, g, t, canvasWidth, canvasHeight) ==
    LET s == IF g.isOpenPalm
             THEN smoothPalmPosition(r, g.cursorPosition,
                                     canvasWidth, canvasHeight)
             ELSE smoothPosition(r, g.cursorPosition,
                                 canvasWidth, canvasHeight)
    IN Tapped(s.rec, [smoothedPosition |-> s.position] @@ g, t)

\* process(hands, canvasWidth, canvasHeight) at the time t; input.given is
\* false when hands is null or undefined. The recognizer after the call,
\* whether the call threw, and the value returned
process(r, input, t, canvasWidth, canvasHeight) ==
    IF ~input.given \/ Len(input.hands) = 0
    THEN [rec |-> emitGesture(resetAll(r), "noHands"),
          threw |-> FALSE,
          returned |-> NullGesture]
    ELSE IF analyzeHandThrows(FirstHand(input.hands))
    THEN [rec |-> r, threw |-> TRUE, returned |-> NullGesture]
    ELSE Positioned(r, analyzeHand(FirstHand(input.hands)), t,
                    canvasWidth, canvasHeight)

---------------------------------------------------------------------------
(* Frames handed to process *)

MaxFrames == 2

\* the size of the canvas element, in pixels
CanvasWidth == 200
CanvasHeight == 100

\* the time from one frame to the next, in ms
FrameGaps == {50, 300}

\* the first hands: pointing, index and middle finger up a little to the
\* side, an open palm, a fist
GoodHands ==
    {Landmarks(Hand(40, ThumbOut, -20, 15, 15, 15)),
     Landmarks(Hand(45, ThumbOut, -20, -20, 15, 15)),
     Landmarks(Hand(40, ThumbOut, -20, -20, -20, -20)),
     Landmarks(Hand(40, ThumbOut, 15, 15, 15, 15))}

\* the same hand with landmarks at different depths
Deep(h) == [i \in DOMAIN h |-> [h[i] EXCEPT !.z = (i % 3) * 10]]

\* the first n landmarks of a hand
Partial(h, n) == [i \in 0..(n - 1) |-> h[i]]

\* a second hand in the frame
OtherHand == Landmarks(Hand(50, ThumbOut, -20, -20, -20, 15))

Given(hands) == [given |-> TRUE, hands |-> hands]

ProcessInputs ==
    {[given |-> FALSE, hands |-> <<>>], Given(<<>>)}
        \cup {Given(<<h>>) : h \in GoodHands}
        \cup {Given(<<Deep(h)>>) : h \in GoodHands}
        \cup {Given(<<h, OtherHand>>) : h \in GoodHands}
        \cup {Given(<<Partial(OtherHand, n)>>) : n \in {0, 5, 20}}

InitProcess ==
    /\ rec = NewGestureRecognizer
    /\ now = StartTime
    /\ tap = NoTap
    /\ call = NoCall
    /\ app = NoApp
    /\ tools = NoTools
    /\ InitHand /\ InitElem
    /\ canvas = NewCanvas(1) /\ pre = canvas /\ op = NoOp /\ steps = 0
    /\ run = NoRun

\* the next frame arrives and process is called on it
Process ==
    /\ steps < MaxFrames
    /\ \E input \in ProcessInputs, gap \in FrameGaps :
           LET p == process([rec EXCEPT !.events = <<>>], input, now + gap,
                            CanvasWidth, CanvasHeight)
           IN /\ now' = now + gap
              /\ rec' = p.rec
              /\ gesture' = p.returned
              /\ call' = [name |-> "process", input |-> input,
                          before |-> rec, threw |-> p.threw]
    /\ steps' = steps + 1
    /\ UNCHANGED <<hand, tracker, tap, tools, app, canvas, pre, op, run,
                   elemVars>>

NextProcess == Process

SpecProcess == InitProcess /\ [][NextProcess]_vars

\* the last call was given no hands
CalledWithNoHands ==
    /\ call.name = "process"
    /\ (~call.input.given \/ call.input.hands = <<>>)

\* C12: process called with no hands returns null, clears wasPointing and
\* pointingStartTime, and leaves positionHistory, palmPositionHistory,
\* smoothedPosition and lastTapTime as they were.
C12_NoHandsKeepsSmoothing ==
    CalledWithNoHands =>
        /\ ~call.threw
        /\ gesture = NullGesture
        /\ ~rec.wasPointing
        /\ rec.pointingStartTime = Null
        /\ rec.positionHistory = call.before.positionHistory
        /\ rec.palmPositionHistory = call.before.palmPositionHistory
        /\ rec.smoothedPosition = call.before.smoothedPosition
        /\ rec.lastTapTime = call.before.lastTapTime

\* no hands in the frame after a pointing hand
C12_Witness ==
    /\ CalledWithNoHands
    /\ call.before.wasPointing
    /\ call.before.pointingStartTime # Null
    /\ call.before.positionHistory # <<>>
    /\ call.before.smoothedPosition # NewGestureRecognizer.smoothedPosition

\* the last call was given a first hand with fewer than 21 landmarks
CalledWithPartialHand ==
    /\ call.name = "process"
    /\ call.input.given
    /\ call.input.hands # <<>>
    /\ Cardinality(DOMAIN call.input.hands[1]) < 21

\* C13, as claimed: process called with a first hand of fewer than 21
\* landmarks returns null without throwing.
C13_PartialHandIsNoGesture ==
    CalledWithPartialHand =>
        /\ ~call.threw
        /\ gesture = NullGesture

\* two hands agree on every landmark's x and y
SameXY(h1, h2) ==
    /\ DOMAIN h1 = DOMAIN h2
    /\ \A i \in DOMAIN h1 : h1[i].x = h2[i].x /\ h1[i].y = h2[i].y

\* what a caller sees of the gesture process returns: type, flags, cursor
\* position, smoothed position, isTap
Visible(p) ==
    <<p.threw, p.returned.type,
      IF p.returned.type = "null" THEN <<>>
      ELSE <<p.returned.isOpenPalm, p.returned.isFist,
             p.returned.isPointing, p.returned.isDrawing,
             p.returned.isPanning, p.returned.cursorPosition,
             p.returned.smoothedPosition, p.returned.isTap>> >>

WellFormed(input) ==
    /\ input.given
    /\ input.hands # <<>>
    /\ DOMAIN input.hands[1] = 0..20

\* the frame that holds nothing but the x and y of the first hand of the
\* input: that hand alone, every landmark at depth 0
PlaneOf(input) ==
    Given(<<[i \in DOMAIN input.hands[1] |->
                [input.hands[1][i] EXCEPT !.z = 0]]>>)

\* C14: in any recognizer state and at any one clock time, two calls of
\* process whose first hands agree on every landmark's x and y return the
\* same type, flags, cursor position, smoothed position and isTap, whatever
\* other hands are given and whatever the depths of the landmarks are: each
\* returns what the call on the x and y of the first hand alone returns.
C14_FirstHandXYOnly ==
    \A a \in ProcessInputs, gap \in FrameGaps :
        WellFormed(a) =>
            /\ SameXY(a.hands[1], PlaneOf(a).hands[1])
            /\ Visible(process(rec, a, now + gap, CanvasWidth, CanvasHeight))
                   = Visible(process(rec, PlaneOf(a), now + gap,
                                     CanvasWidth, CanvasHeight))

\* a tap reported for a frame of two hands, after a pointing hand whose
\* landmarks were at different depths
C14_Witness ==
    /\ call.name = "process"
    /\ Len(call.input.hands) = 2
    /\ gesture.type = "idle" /\ gesture.isTap
    /\ call.before.previousGestureType = "point"
    /\ rec.gestureHistory # <<>>

---------------------------------------------------------------------------
(* Hit testing and path simplification *)

\* the square of the distance from p to the segment v-w, an exact fraction
\* (sqDistToSegment of Utils.simplifyPoints; the square of
\* Line.distanceToLine and FreehandPath.distanceToSegment).  With
\* t = dot / l2 clamped to 0..1 the nearest point is v (t = 0), w (t = 1)
\* or the foot of the perpendicular, at |p - v|^2 - dot^2 / l2
sqDistToSegment(p, v, w) ==
    LET l2 == SqDistance(v, w)
        dot == (p.x - v.x) * (w.x - v.x) + (p.y - v.y) * (w.y - v.y)
    IN IF l2 = 0 \/ dot <= 0 THEN RInt(SqDistance(p, v))
       ELSE IF dot >= l2 THEN RInt(SqDistance(p, w))
       ELSE Rat(SqDistance(p, v) * l2 - dot * dot, l2)

\* Utils.pointInRect
pointInRect(point, rect) ==
    /\ point.x >= rect.x
    /\ point.x <= rect.x + rect.width
    /\ point.y >= rect.y
    /\ point.y <= rect.y + rect.height

\* containsPoint of each class; tolerance 10 for lines and paths. The
\* ellipse test ((px - cx) / rx)^2 + ((py - cy) / ry)^2 <= 1 is multiplied
\* out; with rx = 0 or ry = 0 the quotient is infinite or NaN and the test
\* is false
containsPoint(e, point) ==
    CASE e.type = "circle" ->
            /\ e.width # 0 /\ e.height # 0
            /\ (2 * point.x - 2 * e.x - e.width)
                       * (2 * point.x - 2 * e.x - e.width)
                       * e.height * e.height
                   + (2 * point.y - 2 * e.y - e.height)
                         * (2 * point.y - 2 * e.y - e.height)
                         * e.width * e.width
                   <= e.width * e.width * e.height * e.height
      [] e.type \in {"line", "arrow"} ->
            ~RLess(RInt(10 * 10),
                   sqDistToSegment(point, Point(e.startX, e.startY),
                                   Point(e.endX, e.endY)))
      [] e.type = "freehand" ->
            \E i \in 2..Len(e.points) :
                ~RLess(RInt(10 * 10),
                       sqDistToSegment(point, e.points[i - 1], e.points[i]))
      [] OTHER -> pointInRect(point, e)

\* DrawingCanvas.getElementAt at a canvas position: the id of the topmost
\* element that contains it, 0 (null) if none
\* a hit test that searches from the element added first
getElementAt_BottomFirst(c, canvasPos) ==
    LET hits == {i \in 1..Len(c.elements) :
                    containsPoint(c.elements[i], canvasPos)}
    IN IF hits = {} THEN 0
       ELSE c.elements[CHOOSE i \in hits : \A j \in hits : i <= j].id

getElementAt(c, canvasPos) ==
    LET hits == {i \in 1..Len(c.elements) :
                    containsPoint(c.elements[i], canvasPos)}
    IN IF hits = {} THEN 0
       ELSE c.elements[CHOOSE i \in hits : \A j \in hits : j <= i].id

RECURSIVE simplifyRange(_, _, _)
\* simplify(start, end) of Utils.simplifyPoints, epsilon = 2, indices from 1
simplifyRange(points, start, end) ==
    LET inner == (start + 1)..(end - 1)
        d(i) == sqDistToSegment(points[i], points[start], points[end])
        far == {i \in inner : RLess(RInt(0), d(i))}
    IN IF far = {} THEN <<points[start], points[end]>>
       ELSE LET maxIndex ==
                    CHOOSE i \in far :
                        /\ \A j \in far : ~RLess(d(i), d(j))
                        /\ \A j \in far : j < i => RLess(d(j), d(i))
            IN IF RLess(RInt(2 * 2), d(maxIndex))
               THEN LET left == simplifyRange(points, start, maxIndex)
                        right == simplifyRange(points, maxIndex, end)
                    IN SubSeq(left, 1, Len(left) - 1) \o right
               ELSE <<points[start], points[end]>>

\* Utils.simplifyPoints(points, 2)
simplifyPoints(points) ==
    IF Len(points) < 3 THEN points
    ELSE simplifyRange(points, 1, Len(points))

\* FreehandPath.simplify
simplify(e) ==
    IF Len(e.points) > 3
    THEN [e EXCEPT !.points = simplifyPoints(e.points)]
    ELSE e

---------------------------------------------------------------------------
(* The tools and the ToolManager *)

ToolNames == {"select", "rectangle", "circle", "line", "arrow", "freehand"}

minDistance == 3

\* a tool after construction: the fields of Tool, and those SelectTool and
\* FreehandTool add; previewElement holds the preview itself, draggedElement
\* the id of the element it refers to (0: null)
NewTool(name) ==
    [name |-> name,
     isActive |-> FALSE,
     startPoint |-> Null,
     currentPoint |-> Null,
     previewElement |-> Null,
     strokeColor |-> "#1e1e1e",
     fillColor |-> "transparent",
     strokeWidth |-> 4,
     draggedElement |-> 0,
     dragOffset |-> Point(0, 0),
     lastPoint |-> Null]

activate(t) == [t EXCEPT !.isActive = TRUE]

\* Tool.deactivate, which no tool overrides
deactivate(t) ==
    [t EXCEPT !.isActive = FALSE, !.startPoint = Null,
              !.currentPoint = Null, !.previewElement = Null]

getStyle(t) == Style(t.strokeColor, t.fillColor, t.strokeWidth)

\* a fraction that is a whole number, as the number
Whole(r) == r[1] \div r[2]

\* canvas.screenToCanvas(screenX, screenY); the view is left at its default
\* here, where canvas units are whole numbers
CanvasPoint(c, screen) ==
    LET q == screenToCanvas(c, RInt(screen.x), RInt(screen.y))
    IN Point(Whole(q.x), Whole(q.y))

\* Tool.onEnd
EndGesture(t) ==
    [t EXCEPT !.startPoint = Null, !.currentPoint = Null,
              !.previewElement = Null]

\* the element with this id, changed by change(e), in the element list
Changed(elements, id, change(_)) ==
    [i \in 1..Len(elements) |->
        IF elements[i].id = id THEN change(elements[i]) ELSE elements[i]]

\* onStart(screenX, screenY) of the tool t: the tool and the canvas after it
onStart(t, c, screen) ==
    LET startPoint == CanvasPoint(c, screen)
        t1 == [t EXCEPT !.startPoint = Some(startPoint),
                        !.currentPoint = Some(startPoint)]
    IN IF t.name = "select"
       THEN LET element == getElementAt(c, startPoint)
            IN IF element # 0
               THEN LET e == c.elements[IndexOf(c.elements, element)]
                    IN [tool |-> [t1 EXCEPT
                                     !.draggedElement = element,
                                     !.dragOffset =
                                         Point(startPoint.x - e.x,
                                               startPoint.y - e.y)],
                        canvas |-> selectElement(c, element)]
               ELSE [tool |-> [t1 EXCEPT !.draggedElement = 0],
                     canvas |-> deselectAll(c)]
       ELSE [tool |-> [t1 EXCEPT
                          !.previewElement =
                              Some(Preview(t.name, getStyle(t), startPoint,
                                           c.nextId)),
                          !.lastPoint = IF t.name = "freehand"
                                        THEN Some(startPoint) ELSE @],
             canvas |-> [c EXCEPT !.nextId = @ + 1]]

\* SelectTool.onMove assigns the origin of the dragged element
Dragged(e, x, y) == [e EXCEPT !.x = x, !.y = y]

\* a point is recorded only when it is farther than minDistance
FarEnough_Strict(lastPoint, currentPoint) ==
    SqDistance(lastPoint, currentPoint) > minDistance * minDistance

\* dist >= this.minDistance, by the squares
FarEnough(lastPoint, currentPoint) ==
    SqDistance(lastPoint, currentPoint) >= minDistance * minDistance

\* onMove(screenX, screenY) of the tool t
onMove(t, c, screen) ==
    LET currentPoint == CanvasPoint(c, screen)
        t1 == [t EXCEPT !.currentPoint = Some(currentPoint)]
    IN CASE t.name = "select" ->
            IF t.draggedElement # 0 /\ t.startPoint # Null
            THEN LET startPoint == t.startPoint[1]
                     dx == currentPoint.x - startPoint.x
                     dy == currentPoint.y - startPoint.y
                     x == startPoint.x - t.dragOffset.x + dx
                     y == startPoint.y - t.dragOffset.y + dy
                     moved(e) == Dragged(e, x, y)
                 IN [tool |-> t1,
                     canvas |-> [c EXCEPT
                                    !.elements =
                                        Changed(@, t.draggedElement, moved)]]
            ELSE [tool |-> t1, canvas |-> c]
         [] t.name \in {"rectangle", "circle"} ->
            IF t.previewElement # Null /\ t.startPoint # Null
            THEN [tool |-> [t1 EXCEPT
                               !.previewElement =
                                   Some(SetBounds(@[1], t.startPoint[1],
                                                  currentPoint))],
                  canvas |-> c]
            ELSE [tool |-> t1, canvas |-> c]
         [] t.name \in {"line", "arrow"} ->
            IF t.previewElement # Null
            THEN [tool |-> [t1 EXCEPT
                               !.previewElement =
                                   Some(SetEnd(@[1], currentPoint))],
                  canvas |-> c]
            ELSE [tool |-> t1, canvas |-> c]
         [] t.name = "freehand" ->
            IF /\ t.previewElement # Null
               /\ t.lastPoint # Null
               /\ FarEnough(t.lastPoint[1], currentPoint)
            THEN [tool |-> [t1 EXCEPT
                               !.previewElement =
                                   Some(AddPoint(@[1], currentPoint.x,
                                                 currentPoint.y)),
                               !.lastPoint = Some(currentPoint)],
                  canvas |-> c]
            ELSE [tool |-> t1, canvas |-> c]

\* a shape that is large enough also when it is exactly at the threshold
LargeEnough_Inclusive(e) ==
    IF e.type \in {"line", "arrow"}
    THEN SqDistance(Point(e.startX, e.startY), Point(e.endX, e.endY))
             >= 10 * 10
    ELSE e.width >= 5 /\ e.height >= 5

\* the size a preview must have to be added: width > 5 and height > 5 of
\* a rectangle or circle, length > 10 of a line or arrow
LargeEnough(e) ==
    IF e.type \in {"line", "arrow"}
    THEN SqDistance(Point(e.startX, e.startY), Point(e.endX, e.endY))
             > 10 * 10
    ELSE e.width > 5 /\ e.height > 5

\* a select tool that saves no snapshot when the drag ends
DragEnd_NoSnapshot(t, c) == c

\* SelectTool.onEnd: save history after moving
DragEnd(t, c) == IF t.draggedElement # 0 THEN saveHistory(c) ELSE c

\* onEnd(screenX, screenY) of the tool t
onEnd(t, c) ==
    CASE t.name = "select" ->
            [tool |-> EndGesture([t EXCEPT !.draggedElement = 0]),
             canvas |-> DragEnd(t, c)]
      [] t.name \in {"rectangle", "circle", "line", "arrow"} ->
            [tool |-> EndGesture(t),
             canvas |-> IF /\ t.previewElement # Null
                           /\ LargeEnough(t.previewElement[1])
                        THEN addElement(c, t.previewElement[1])
                        ELSE c]
      [] t.name = "freehand" ->
            [tool |-> EndGesture([t EXCEPT !.lastPoint = Null]),
             canvas |-> IF /\ t.previewElement # Null
                           /\ Len(t.previewElement[1].points) > 2
                        THEN addElement(c, simplify(t.previewElement[1]))
                        ELSE c]

\* a ToolManager after construction
NewToolManager ==
    [tools |-> [n \in ToolNames |->
                   IF n = "select" THEN activate(NewTool(n)) ELSE NewTool(n)],
     currentTool |-> "select",
     strokeColor |-> "#1e1e1e",
     fillColor |-> "transparent",
     strokeWidth |-> 4,
     isPanning |-> FALSE,
     panStartPoint |-> Null,
     panStartTransform |-> Null,
     isDrawing |-> FALSE,
     events |-> <<>>]

updateToolStyles(m) ==
    [m EXCEPT !.tools =
        [n \in ToolNames |->
            [m.tools[n] EXCEPT !.strokeColor = m.strokeColor,
                               !.fillColor = m.fillColor,
                               !.strokeWidth = m.strokeWidth]]]

\* this.tools is an object literal, so this.tools[toolName] also finds what
\* every object inherits from Object.prototype; "constructor" (the function
\* Object, whose name is "Object") stands for those names
InheritedNames == {"constructor"}

\* this.tools[toolName] is truthy
HasTool(toolName) == toolName \in ToolNames \cup InheritedNames

\* this.currentTool.name; currentTool holds the key it was looked up by
CurrentName(m) ==
    IF m.currentTool \in ToolNames THEN m.currentTool ELSE "Object"

\* a setTool that activates the incoming tool and leaves the outgoing one
setTool_NoDeactivate(m, toolName) ==
    IF toolName \in ToolNames /\ m.currentTool \in ToolNames
           /\ m.currentTool # toolName
    THEN [m EXCEPT !.tools[toolName] = activate(@), !.currentTool = toolName]
    ELSE m

\* ToolManager.setTool(toolName): the manager after the call.  With an
\* inherited name the outgoing tool is deactivated and currentTool is set
\* to a function that has no activate(); from then on currentTool has no
\* deactivate() either, and the call changes nothing
setTool(m, toolName) ==
    IF ~HasTool(toolName) \/ CurrentName(m) = toolName THEN m
    ELSE IF m.currentTool \notin ToolNames THEN m
    ELSE IF toolName \notin ToolNames
    THEN [m EXCEPT !.tools[m.currentTool] = deactivate(@),
                   !.currentTool = toolName]
    ELSE LET m1 == [m EXCEPT
                       !.tools[m.currentTool] = deactivate(@),
                       !.tools[toolName] = activate(@),
                       !.currentTool = toolName]
         IN [updateToolStyles(m1) EXCEPT !.events = Append(@, "toolChanged")]

\* the call ends in a TypeError: deactivate or activate is not a function
setToolThrows(m, toolName) ==
    /\ HasTool(toolName)
    /\ CurrentName(m) # toolName
    /\ m.currentTool \notin ToolNames \/ toolName \notin ToolNames

\* the manager with its current tool replaced, and the canvas
WithTool(m, r) ==
    [tools |-> [m EXCEPT !.tools[m.currentTool] = r.tool],
     canvas |-> r.canvas]

\* currentTool is one of the tools
Working(m) == m.currentTool \in ToolNames

\* ToolManager.onPinchStart, onPinchMove, onPinchEnd; when currentTool is
\* not a tool, the call of its onStart, onMove or onEnd is a TypeError and
\* what follows it is not reached
onPinchStart(m, c, screen) ==
    IF Working(m)
    THEN WithTool([m EXCEPT !.isDrawing = TRUE],
                  onStart(m.tools[m.currentTool], c, screen))
    ELSE [tools |-> [m EXCEPT !.isDrawing = TRUE], canvas |-> c]

onPinchMove(m, c, screen) ==
    IF m.isDrawing /\ Working(m)
    THEN WithTool(m, onMove(m.tools[m.currentTool], c, screen))
    ELSE [tools |-> m, canvas |-> c]

onPinchEnd(m, c) ==
    IF m.isDrawing /\ Working(m)
    THEN WithTool([m EXCEPT !.isDrawing = FALSE],
                  onEnd(m.tools[m.currentTool], c))
    ELSE [tools |-> m, canvas |-> c]

\* ToolManager.onPanStart(screenX, screenY): the manager after it
onPanStart(m, c, screen) ==
    [m EXCEPT !.isPanning = TRUE,
              !.panStartPoint = Some(screen),
              !.panStartTransform =
                  Some([x |-> c.transform.x, y |-> c.transform.y])]

\* a pan that adds the movement of the cursor since the start of the pan to
\* the pan offset of the frame before
onPanMove_Incremental(m, c, screen) ==
    IF m.isPanning /\ m.panStartPoint # Null
    THEN [c EXCEPT
             !.transform.x = RAdd(@, RInt(screen.x - m.panStartPoint[1].x)),
             !.transform.y = RAdd(@, RInt(screen.y - m.panStartPoint[1].y))]
    ELSE c

\* ToolManager.onPanMove(screenX, screenY) writes the pan offset of the
\* canvas itself: the canvas after it
onPanMove(m, c, screen) ==
    IF m.isPanning /\ m.panStartPoint # Null
    THEN LET dx == screen.x - m.panStartPoint[1].x
             dy == screen.y - m.panStartPoint[1].y
         IN [c EXCEPT
                !.transform.x = RAdd(m.panStartTransform[1].x, RInt(dx)),
                !.transform.y = RAdd(m.panStartTransform[1].y, RInt(dy))]
    ELSE c

\* ToolManager.onPanEnd()
onPanEnd(m) ==
    [m EXCEPT !.isPanning = FALSE, !.panStartPoint = Null,
              !.panStartTransform = Null]

\* the call ends in a TypeError
pinchThrows(m, name) ==
    /\ ~Working(m)
    /\ name = "onPinchStart" \/ m.isDrawing

---------------------------------------------------------------------------
(* Pinch gestures and tool switches on a ToolManager *)

MaxToolOps == 4

\* where the cursor is, in screen pixels
ScreenPoints ==
    {Point(0, 0), Point(3, 3), Point(5, 5), Point(10, 10), Point(10, 0)}

RECURSIVE Moves(_, _, _)
\* onPinchMove to each of the points from the k-th on
Moves(s, points, k) ==
    IF k > Len(points) THEN s
    ELSE Moves(onPinchMove(s.tools, s.canvas, points[k]), points, k + 1)

\* a whole gesture with the tool: setTool, onPinchStart at the first point,
\* onPinchMove to the others, onPinchEnd
Gesture(s, toolName, points) ==
    LET started == onPinchStart(setTool(s.tools, toolName), s.canvas,
                                points[1])
        moved == Moves(started, points, 2)
    IN onPinchEnd(moved.tools, moved.canvas)

\* the application after init: an empty scene with its first snapshot
Started == [tools |-> NewToolManager, canvas |-> saveHistory(NewCanvas(1))]

\* the gestures that drew what is in the scene at the start: none, or
\* one with some tool
SceneGestures ==
    {[tool |-> "select", points |-> <<Point(0, 0)>>],
     [tool |-> "rectangle", points |-> <<Point(0, 0), Point(10, 10)>>],
     [tool |-> "circle", points |-> <<Point(0, 0), Point(10, 10)>>],
     [tool |-> "line", points |-> <<Point(0, 0), Point(10, 10)>>],
     [tool |-> "arrow",
      points |-> <<Point(10, 10), Point(10, 0), Point(0, 0)>>],
     [tool |-> "freehand",
      points |-> <<Point(0, 0), Point(10, 0), Point(5, 5), Point(10, 10)>>]}

Scenes == {Gesture(Started, g.tool, g.points) : g \in SceneGestures}

\* no gesture under way
NoGestureRun ==
    [phase |-> "none", tool |-> "none", start |-> Point(0, 0),
     last |-> Point(0, 0), moves |-> 0, switched |-> FALSE, hit |-> Null,
     pushes |-> 0, captured |-> <<>>]

\* the number of times the event is in the list
Count(events, event) ==
    Cardinality({i \in 1..Len(events) : events[i] = event})

\* the elements that contain the canvas point, topmost last
Hit(c, point) ==
    SelectSeq(c.elements, LAMBDA e : containsPoint(e, point))

\* a method of the ToolManager was called, leaving manager and canvas as s;
\* the gesture goes on as g
ToolCalled(name, s, g) ==
    /\ steps < MaxToolOps
    /\ steps' = steps + 1
    /\ pre' = Fresh(canvas)
    /\ op' = [name |-> name, id |-> 0, present |-> FALSE,
              tool |-> tools.tools[tools.currentTool]]
    /\ tools' = s.tools
    /\ canvas' = s.canvas
    /\ run' = [g EXCEPT !.pushes = @ + Count(s.canvas.events, "historyChanged")]
    /\ UNCHANGED <<call, app, elemVars, handVars, tapVars>>

\* the tool manager as the call finds it: the events of the last call gone
Quiet(m) == [m EXCEPT !.events = <<>>]

\* the tools the user switches to
SwitchTargets == {"select", "rectangle", "freehand"}

SetTool ==
    \E n \in SwitchTargets :
        ToolCalled("setTool",
                   [tools |-> setTool(Quiet(tools), n),
                    canvas |-> Fresh(canvas)],
                   [run EXCEPT !.switched = @ \/ (n # tools.currentTool)])

\* the application starts a pinch only when none is under way
OnPinchStart ==
    /\ ~tools.isDrawing
    /\ \E p \in ScreenPoints :
           ToolCalled("onPinchStart",
                      onPinchStart(Quiet(tools), Fresh(canvas), p),
                      [phase |-> "drawing", tool |-> tools.currentTool,
                       start |-> p, last |-> p, moves |-> 0,
                       switched |-> FALSE, hit |-> Hit(canvas, p),
                       pushes |-> 0, captured |-> <<p>>])

\* and moves and ends one only while it is
OnPinchMove ==
    /\ tools.isDrawing
    /\ \E p \in ScreenPoints :
           ToolCalled("onPinchMove",
                      onPinchMove(Quiet(tools), Fresh(canvas), p),
                      [run EXCEPT
                          !.last = p, !.moves = @ + 1,
                          !.captured =
                              IF SqDistance(@[Len(@)], p) >= 3 * 3
                              THEN Append(@, p) ELSE @])

OnPinchEnd ==
    /\ tools.isDrawing
    /\ ToolCalled("onPinchEnd", onPinchEnd(Quiet(tools), Fresh(canvas)),
                  [run EXCEPT !.phase = "ended"])

InitDraw ==
    /\ \E s \in Scenes, n \in ToolNames :
           /\ tools = Quiet(setTool(s.tools, n))
           /\ canvas = Fresh(s.canvas)
    /\ pre = canvas
    /\ op = NoOp
    /\ steps = 0
    /\ run = NoGestureRun
    /\ call = NoCall
    /\ app = NoApp
    /\ InitElem /\ InitHand /\ InitTap

NextDraw == SetTool \/ OnPinchStart \/ OnPinchMove \/ OnPinchEnd

SpecDraw == InitDraw /\ [][NextDraw]_vars

\* the last call left elements, history and notifications as they were
NothingStored ==
    /\ canvas.elements = pre.elements
    /\ canvas.history = pre.history
    /\ canvas.historyIndex = pre.historyIndex
    /\ canvas.events = <<>>

\* the last call added exactly the element e, on top
Stored(e) ==
    /\ canvas.elements = Append(pre.elements, e)
    /\ canvas.events = <<"historyChanged", "elementAdded">>

\* a gesture made with one tool from onPinchStart to onPinchEnd has ended
EndedWith(toolNames) ==
    /\ op.name = "onPinchEnd"
    /\ op.tool.name \in toolNames
    /\ run.tool = op.tool.name
    /\ ~run.switched

\* C15: when a gesture ends, a rectangle or circle tool adds its preview
\* iff the preview is more than 5 wide and more than 5 high, a line or
\* arrow tool iff start and end are more than 10 apart; otherwise elements,
\* history and notifications stay as they were.  A rectangle dragged
\* (0,0)->(3,3) adds nothing, dragged (0,0)->(10,10) it adds one element
\* with bounds x 0, y 0, width 10, height 10.
C15_CommitThreshold ==
    /\ (op.name = "onPinchEnd" /\ op.tool.name \in {"rectangle", "circle"}) =>
           IF /\ op.tool.previewElement # Null
              /\ op.tool.previewElement[1].width > 5
              /\ op.tool.previewElement[1].height > 5
           THEN Stored(op.tool.previewElement[1])
           ELSE NothingStored
    /\ (op.name = "onPinchEnd" /\ op.tool.name \in {"line", "arrow"}) =>
           IF /\ op.tool.previewElement # Null
              /\ SqDistance(Point(op.tool.previewElement[1].startX,
                                  op.tool.previewElement[1].startY),
                            Point(op.tool.previewElement[1].endX,
                                  op.tool.previewElement[1].endY)) > 10 * 10
           THEN Stored(op.tool.previewElement[1])
           ELSE NothingStored
    /\ EndedWith({"rectangle", "circle"}) =>
           IF /\ Abs(run.last.x - run.start.x) > 5
              /\ Abs(run.last.y - run.start.y) > 5
           THEN /\ Len(canvas.elements) = Len(pre.elements) + 1
                /\ LET e == canvas.elements[Len(canvas.elements)]
                   IN /\ e.type = run.tool
                      /\ e.x = Min(run.start.x, run.last.x)
                      /\ e.y = Min(run.start.y, run.last.y)
                      /\ e.width = Abs(run.last.x - run.start.x)
                      /\ e.height = Abs(run.last.y - run.start.y)
           ELSE NothingStored
    /\ EndedWith({"line", "arrow"}) =>
           IF SqDistance(run.start, run.last) > 10 * 10
           THEN /\ Len(canvas.elements) = Len(pre.elements) + 1
                /\ canvas.elements[Len(canvas.elements)].type = run.tool
           ELSE NothingStored
    /\ (EndedWith({"rectangle"}) /\ run.start = Point(0, 0)) =>
           /\ run.last = Point(3, 3) => NothingStored
           /\ run.last = Point(10, 10) =>
                  /\ Len(canvas.elements) = Len(pre.elements) + 1
                  /\ LET e == canvas.elements[Len(canvas.elements)]
                     IN <<e.x, e.y, e.width, e.height>> = <<0, 0, 10, 10>>

\* a rectangle dragged (0,0)->(10,10) is in the scene
C15_Witness ==
    /\ EndedWith({"rectangle"})
    /\ run.start = Point(0, 0) /\ run.last = Point(10, 10)
    /\ Len(canvas.elements) = Len(pre.elements) + 1
    /\ canvas.elements[Len(canvas.elements)].width = 10

---------------------------------------------------------------------------
(* One long freehand stroke *)

MaxStrokeMoves == 100

\* how far apart the moves of a stroke are, and in which direction it goes
Spacings == {1, 2, 3, 4}
Directions == {Point(1, 0), Point(0, 1), Point(1, 1), Point(-1, 0)}

\* the freehand tool has been chosen and a pinch has started at the origin
StrokeStarted ==
    onPinchStart(setTool(Started.tools, "freehand"), Started.canvas,
                 Point(0, 0))

InitStroke ==
    /\ tools = Quiet(StrokeStarted.tools)
    /\ canvas = Fresh(StrokeStarted.canvas)
    /\ pre = canvas
    /\ op = NoOp
    /\ steps = 0
    /\ \E spacing \in Spacings, direction \in Directions :
           run = [phase |-> "drawing", tool |-> "freehand",
                  start |-> Point(0, 0), last |-> Point(0, 0), moves |-> 0,
                  switched |-> FALSE, hit |-> <<>>, pushes |-> 0,
                  captured |-> <<Point(0, 0)>>,
                  spacing |-> spacing, direction |-> direction]
    /\ call = NoCall
    /\ app = NoApp
    /\ InitElem /\ InitHand /\ InitTap

\* the cursor moves on by the spacing of the stroke
StrokeMove ==
    /\ run.moves < MaxStrokeMoves
    /\ LET p == Point(run.last.x + run.spacing * run.direction.x,
                      run.last.y + run.spacing * run.direction.y)
           s == onPinchMove(Quiet(tools), Fresh(canvas), p)
       IN /\ tools' = s.tools
          /\ canvas' = s.canvas
          /\ pre' = Fresh(canvas)
          /\ op' = [name |-> "onPinchMove", id |-> 0, present |-> FALSE,
                    tool |-> tools.tools[tools.currentTool]]
          /\ run' = [run EXCEPT
                        !.last = p, !.moves = @ + 1,
                        !.captured = IF SqDistance(@[Len(@)], p) >= 3 * 3
                                     THEN Append(@, p) ELSE @]
    /\ UNCHANGED <<steps, call, app, elemVars, handVars, tapVars>>

NextStroke == StrokeMove

SpecStroke == InitStroke /\ [][NextStroke]_vars

\* the points the freehand tool has recorded so far
Recorded == tools.tools["freehand"].previewElement[1].points

\* C16: during a freehand gesture onMove appends the current point iff it
\* is at least 3 units from the last recorded point, so the recorded points
\* are those of the rule applied move by move and any two consecutive ones
\* are at least 3 apart; 100 moves 1 unit apart along a line record the
\* start and 33 more points.
C16_FreehandDecimation ==
    /\ Recorded = run.captured
    /\ tools.tools["freehand"].lastPoint = Some(Recorded[Len(Recorded)])
    /\ \A i \in 2..Len(Recorded) :
           SqDistance(Recorded[i - 1], Recorded[i]) >= 3 * 3
    /\ (op.name = "onPinchMove") =>
           (Len(Recorded) = Len(op.tool.previewElement[1].points) + 1
                <=> SqDistance(op.tool.lastPoint[1], run.last) >= 3 * 3)
    /\ (/\ run.moves = 100 /\ run.spacing = 1
        /\ run.direction \in {Point(1, 0), Point(0, 1), Point(-1, 0)}) =>
           Len(Recorded) = 1 + 33

\* 100 moves 1 unit apart along the x axis
C16_Witness ==
    /\ run.moves = 100 /\ run.spacing = 1 /\ run.direction = Point(1, 0)
    /\ Len(Recorded) = 34
    /\ Recorded[34] = Point(99, 0)

---------------------------------------------------------------------------
(* The end of a freehand gesture *)

\* the points of s are points of t, in the order they have in t
IsSubsequence(s, t) ==
    \E f \in [1..Len(s) -> 1..Len(t)] :
        /\ \A i \in 1..Len(s) : t[f[i]] = s[i]
        /\ \A i, j \in 1..Len(s) : i < j => f[i] < f[j]

\* C17: FreehandTool.onEnd adds a path iff at least 3 points were captured,
\* and then the points of the added path are the RDP simplification
\* (epsilon 2) of the captured points: a subsequence of them that keeps the
\* first and the last.
C17_FreehandCommit ==
    EndedWith({"freehand"}) =>
        IF Len(run.captured) >= 3
        THEN /\ Len(canvas.elements) = Len(pre.elements) + 1
             /\ LET committed == canvas.elements[Len(canvas.elements)].points
                IN /\ committed = simplifyPoints(run.captured)
                   /\ IsSubsequence(committed, run.captured)
                   /\ committed[1] = run.captured[1]
                   /\ committed[Len(committed)] =
                          run.captured[Len(run.captured)]
        ELSE NothingStored

---------------------------------------------------------------------------
(* Dragging with the select tool *)

\* the gesture under way, or just ended, began with the select tool and the
\* tool was not changed during it
SelectGesture == run.tool = "select" /\ ~run.switched

\* the last call left the history as it was
NoSnapshot ==
    /\ canvas.history = pre.history
    /\ canvas.historyIndex = pre.historyIndex
    /\ Count(canvas.events, "historyChanged") = 0

\* C18: a select-tool drag (onStart on an element, any number of onMove,
\* onEnd) pushes exactly one history snapshot, at onEnd, and none in onStart
\* or onMove; a select-tool gesture whose onStart hits no element pushes
\* none.
C18_OneSnapshotPerDrag ==
    SelectGesture =>
        /\ (run.phase = "drawing") => (run.pushes = 0 /\ NoSnapshot)
        /\ (run.phase = "ended") =>
               run.pushes = IF run.hit # <<>> THEN 1 ELSE 0
        /\ EndedWith({"select"}) =>
               IF run.hit # <<>>
               THEN PushedOne /\ canvas.events = <<"historyChanged">>
               ELSE NoSnapshot

\* an element was dragged with two moves and the drag has ended
C18_Witness ==
    /\ EndedWith({"select"})
    /\ run.hit # <<>>
    /\ run.moves = 2
    /\ run.last # run.start
    /\ run.pushes = 1
    /\ Len(canvas.history) = Len(pre.history) + 1

\* a gesture with the select tool that began on no element has ended
C18_WitnessNoHit ==
    /\ EndedWith({"select"})
    /\ run.hit = <<>>
    /\ run.moves >= 1
    /\ run.pushes = 0

\* what places an element, or its serialized form: the origin of a
\* rectangle or circle, both endpoints of a line or arrow, every point of a
\* freehand path
Geometry(e) ==
    CASE e.type \in {"line", "arrow"} ->
            <<Point(e.startX, e.startY), Point(e.endX, e.endY)>>
      [] e.type = "freehand" ->
            [i \in 1..Len(e.points) |-> Point(e.points[i].x, e.points[i].y)]
      [] OTHER -> <<Point(e.x, e.y)>>

\* the points, each moved by (dx, dy)
Translated(points, dx, dy) ==
    [i \in 1..Len(points) |-> Point(points[i].x + dx, points[i].y + dy)]

\* the element of the list with this id
WithId(elements, id) == elements[IndexOf(elements, id)]

\* C19: during a select-tool drag, after each onMove the geometry of the
\* dragged element is its geometry at onStart translated by (current point
\* - anchor), and the snapshot pushed at onEnd records that geometry.
C19_DragTranslates ==
    (/\ SelectGesture
     /\ run.hit # <<>>
     /\ run.moves >= 1
     /\ op.name \in {"onPinchMove", "onPinchEnd"}) =>
        LET grabbed == run.hit[Len(run.hit)]
            there == Translated(Geometry(grabbed),
                                run.last.x - run.start.x,
                                run.last.y - run.start.y)
        IN /\ Geometry(WithId(canvas.elements, grabbed.id)) = there
           /\ (op.name = "onPinchEnd") =>
                  Geometry(WithId(canvas.history[canvas.historyIndex + 1],
                                  grabbed.id)) = there

---------------------------------------------------------------------------
(* Switching tools during a gesture *)

\* the tool holds nothing of a gesture
Idle(t) ==
    /\ t.startPoint = Null
    /\ t.currentPoint = Null
    /\ t.previewElement = Null
    /\ t.draggedElement = 0
    /\ t.lastPoint = Null

\* the last call was a setTool that deactivated the tool that was current
Deactivated == op.name = "setTool" /\ op.tool.name # tools.currentTool

\* the last call was an onMove or onEnd of a tool that was activated after
\* the gesture began, so it has had no onStart since it was last deactivated
MovedOrEndedUnstarted ==
    /\ op.name \in {"onPinchMove", "onPinchEnd"}
    /\ run.switched

\* C20: after deactivate(), as performed by setTool, a tool holds no
\* in-progress state: startPoint, currentPoint, previewElement,
\* draggedElement and lastPoint are null, and stay so while another tool is
\* current; an onMove or onEnd delivered to a tool that has had no onStart
\* since then neither moves or adds an element nor pushes a snapshot.
C20_DeactivateClearsAll ==
    /\ Deactivated => Idle(tools.tools[op.tool.name])
    /\ \A n \in ToolNames \ {tools.currentTool} : Idle(tools.tools[n])
    /\ MovedOrEndedUnstarted =>
           (canvas.elements = pre.elements /\ NoSnapshot)

---------------------------------------------------------------------------
(* Tool switches by any name *)

\* the names setTool is called with: tools, a name that is no property of
\* the tool table, and an inherited one
SwitchNames == SwitchTargets \cup {"eraser"} \cup InheritedNames

\* the current tool for the record of the last call
CurrentTool(m) ==
    IF Working(m) THEN m.tools[m.currentTool] ELSE [name |-> CurrentName(m)]

SetToolByName ==
    /\ steps < MaxToolOps
    /\ \E n \in SwitchNames :
           /\ tools' = setTool(Quiet(tools), n)
           /\ call' = [name |-> "setTool", input |-> n,
                       before |-> Quiet(tools),
                       threw |-> setToolThrows(tools, n)]
    /\ steps' = steps + 1
    /\ canvas' = Fresh(canvas)
    /\ pre' = Fresh(canvas)
    /\ op' = [name |-> "setTool", id |-> 0, present |-> FALSE,
              tool |-> CurrentTool(tools)]
    /\ run' = [run EXCEPT
                  !.switched = @ \/ tools'.currentTool # tools.currentTool]
    /\ UNCHANGED <<app, elemVars, handVars, tapVars>>

\* a pinch call on a manager whose currentTool is not a tool
PinchWithoutTool ==
    /\ ~Working(tools)
    /\ steps < MaxToolOps
    /\ \E name \in {"onPinchStart", "onPinchMove", "onPinchEnd"} :
           LET m == Quiet(tools)
               c == Fresh(canvas)
               s == CASE name = "onPinchStart" ->
                             onPinchStart(m, c, Point(0, 0))
                      [] name = "onPinchMove" ->
                             onPinchMove(m, c, Point(0, 0))
                      [] OTHER -> onPinchEnd(m, c)
           IN /\ tools' = s.tools
              /\ canvas' = s.canvas
              /\ call' = [name |-> name, input |-> "", before |-> m,
                          threw |-> pinchThrows(m, name)]
              /\ op' = [name |-> name, id |-> 0, present |-> FALSE,
                        tool |-> CurrentTool(tools)]
    /\ steps' = steps + 1
    /\ pre' = Fresh(canvas)
    /\ UNCHANGED <<run, app, elemVars, handVars, tapVars>>

PinchWithTool ==
    /\ Working(tools)
    /\ OnPinchStart \/ OnPinchMove \/ OnPinchEnd

NextSwitch == SetToolByName \/ PinchWithTool \/ PinchWithoutTool

SpecSwitch == InitDraw /\ [][NextSwitch]_vars

\* the tools that are active
ActiveTools == {n \in ToolNames : tools.tools[n].isActive}

\* the last call was setTool(n) on the manager b
SetToolCalled(b, n) ==
    op.name = "setTool" /\ call.before = b /\ call.input = n

\* C21: setTool with the name of a tool other than the current one
\* deactivates the outgoing tool and activates the incoming one, and
\* exactly one tool is active in every reachable state; issued during a
\* shape or freehand drag it discards the preview, and the gesture end that
\* follows adds no element; setTool with an unknown name or the name of the
\* current tool changes nothing.
C21_SwitchTools ==
    /\ Cardinality(ActiveTools) = 1
    /\ \A n \in SwitchNames :
           SetToolCalled(call.before, n) =>
               IF n \in ToolNames /\ n # call.before.currentTool
               THEN /\ tools.currentTool = n
                    /\ ActiveTools = {n}
                    /\ tools.tools[op.tool.name].previewElement = Null
               ELSE /\ tools = call.before
                    /\ ~call.threw
    /\ (/\ op.name = "onPinchEnd"
        /\ run.switched
        /\ run.tool # "select") =>
           canvas.elements = pre.elements

---------------------------------------------------------------------------
(* The view: zooming and panning *)

MaxViewOps == 3

\* what zoom is called with: factors that shrink, enlarge, and run into
\* either limit; the screen points zoomed around
Factors == {Rat(1, 2), RInt(3), RInt(50), Rat(1, 100)}
Centers == {Point(0, 0), Point(100, 50)}

\* the scales setZoom is called with, some of them beyond the limits
Scales == {RInt(1), RInt(5), Rat(1, 20)}

\* where the cursor is during a palm gesture
PanPoints == {Point(10, 10), Point(30, 5)}

\* a method changing the view was called
ViewCalled(name, factor, center, c, m) ==
    /\ steps < MaxViewOps
    /\ steps' = steps + 1
    /\ pre' = Fresh(canvas)
    /\ op' = [name |-> name, id |-> 0, present |-> FALSE,
              factor |-> factor, center |-> center]
    /\ canvas' = c
    /\ tools' = m
    /\ UNCHANGED <<run, call, app, elemVars, handVars, tapVars>>

ViewZoom ==
    \E f \in Factors, p \in Centers :
        ViewCalled("zoom", f, p,
                   zoom(Fresh(canvas), f, RInt(p.x), RInt(p.y)), tools)

ViewSetZoom ==
    \E z \in Scales, p \in Centers :
        ViewCalled("setZoom", z, p,
                   setZoom(Fresh(canvas), z, RInt(p.x), RInt(p.y)), tools)

ViewPan ==
    ViewCalled("pan", RInt(1), Point(0, 0),
               pan(Fresh(canvas), RInt(10), RInt(-5)), tools)

ViewReset ==
    ViewCalled("resetView", RInt(1), Point(0, 0), resetView(Fresh(canvas)),
               tools)

ViewPanStart ==
    \E p \in PanPoints :
        ViewCalled("onPanStart", RInt(1), p, Fresh(canvas),
                   onPanStart(tools, canvas, p))

ViewPanMove ==
    \E p \in PanPoints :
        ViewCalled("onPanMove", RInt(1), p,
                   onPanMove(tools, Fresh(canvas), p), tools)

ViewPanEnd ==
    ViewCalled("onPanEnd", RInt(1), Point(0, 0), Fresh(canvas),
               onPanEnd(tools))

InitView ==
    /\ canvas = Fresh(saveHistory(NewCanvas(1)))
    /\ tools = NewToolManager
    /\ pre = canvas
    /\ op = NoOp
    /\ steps = 0
    /\ run = NoRun
    /\ call = NoCall
    /\ app = NoApp
    /\ InitElem /\ InitHand /\ InitTap

NextView ==
    \/ ViewZoom \/ ViewSetZoom \/ ViewPan \/ ViewReset
    \/ ViewPanStart \/ ViewPanMove \/ ViewPanEnd

SpecView == InitView /\ [][NextView]_vars

\* p <= q
RLeq(p, q) == ~RLess(q, p)

\* the scale the last zoom or setZoom asked for, before clamping
AskedScale ==
    IF op.name = "zoom" THEN RMul(pre.transform.scale, op.factor)
    ELSE op.factor

\* C29: zoom(factor, cx, cy) sets scale to clamp(oldScale * factor, 0.1, 4),
\* so the scale is within [0.1, 4] in every state reached by zoom, setZoom,
\* pan, resetView and gesture panning; when the clamped scale equals the old
\* scale the transform is unchanged and nothing is emitted.
C29_ScaleClamped ==
    /\ RLeq(Rat(1, 10), canvas.transform.scale)
    /\ RLeq(canvas.transform.scale, RInt(4))
    /\ (op.name \in {"zoom", "setZoom"}) =>
           LET newScale == RMin(RMax(AskedScale, Rat(1, 10)), RInt(4))
           IN /\ canvas.transform.scale = newScale
              /\ (newScale = pre.transform.scale) =>
                     (canvas.transform = pre.transform /\ canvas.events = <<>>)
              /\ (newScale # pre.transform.scale) =>
                     canvas.events = <<"zoom">>

\* zoom ran into the upper limit, and a further zoom in changed nothing
C29_Witness ==
    /\ op.name = "zoom"
    /\ RLess(RInt(4), AskedScale)
    /\ pre.transform.scale = RInt(4)
    /\ canvas.transform = pre.transform
    /\ canvas.transform.x # RInt(0)

\* zoom ran into the lower limit
C29_WitnessLow ==
    /\ op.name = "zoom"
    /\ RLess(AskedScale, Rat(1, 10))
    /\ canvas.transform.scale = Rat(1, 10)
    /\ pre.transform.scale # Rat(1, 10)

\* the canvas point under the screen point, for the transform t
Under(t, screen) ==
    [x |-> RDiv(RSub(RInt(screen.x), t.x), t.scale),
     y |-> RDiv(RSub(RInt(screen.y), t.y), t.scale)]

\* C30: the canvas point under the screen point C is the same before and
\* after zoom(f, C.x, C.y), also when the new scale is clamped.
C30_ZoomAnchor ==
    (op.name = "zoom") =>
        Under(pre.transform, op.center) = Under(canvas.transform, op.center)

\* a zoom around a point that is not the origin of the view changed the
\* scale and was clamped
C30_Witness ==
    /\ op.name = "zoom"
    /\ op.center = Point(100, 50)
    /\ canvas.transform.scale # pre.transform.scale
    /\ canvas.transform.scale # AskedScale
    /\ pre.transform.x # RInt(100)
    /\ canvas.transform.x # pre.transform.x

---------------------------------------------------------------------------
(* GestureCanvasApp: the toolbar hover and handleGestures *)

HOVER_DWELL_TIME == 3000

\* ToolManager.onTap(screenX, screenY): the canvas after it
onTap(m, c, screen) ==
    IF CurrentName(m) = "select"
    THEN LET element == getElementAt(c, CanvasPoint(c, screen))
         IN IF element # 0 THEN selectElement(c, element) ELSE deselectAll(c)
    ELSE c

\* a fist that leaves the selection alone
onFist_KeepSelection(m, c) == c

\* ToolManager.onFist()
onFist(m, c) == deselectAll(c)

\* no button: hoveredButton = null
NoButton == ""

\* the fields of GestureCanvasApp that handleGestures works on, after the
\* constructor
NewApp ==
    [isCurrentlyDrawing |-> FALSE,
     isCurrentlyPanning |-> FALSE,
     hoveredButton |-> NoButton,
     hoverStartTime |-> 0,
     dwellActivated |-> FALSE,
     isOverToolbar |-> FALSE]

\* The toolbar is not part of the sources.  It lies right of x = 50; its
\* tool buttons (class tool-btn, data-tool = the name of a tool) are inside
\* it, one for the rectangle tool at x = 50 and one for the select tool at
\* x = 60
getToolbarButtonAt(pos) ==
    CASE pos.x = 50 -> "rectangle"
      [] pos.x = 60 -> "select"
      [] OTHER -> NoButton

isPositionOverToolbar(pos) == pos.x >= 50

\* the application with its tool manager and canvas during a call, and the
\* calls it has made: w.app, w.tools, w.canvas, w.calls
Did(w, name) == [w EXCEPT !.calls = Append(@, name)]

\* activateHoveredButton: click() on a tool button runs its listener,
\* toolManager.setTool(btn.dataset.tool)
activateHoveredButton(w) ==
    IF w.app.hoveredButton = NoButton THEN w
    ELSE Did([w EXCEPT !.tools = setTool(@, w.app.hoveredButton)], "click")

\* a dwell that is due only after more than HOVER_DWELL_TIME
DwellDue_Late(elapsed) == elapsed > HOVER_DWELL_TIME

\* elapsed >= this.HOVER_DWELL_TIME
DwellDue(elapsed) == elapsed >= HOVER_DWELL_TIME

\* the hover fields of clearToolbarHover and of "remove hover from
\* previous button"
Unhovered(a) ==
    [a EXCEPT !.hoveredButton = NoButton, !.hoverStartTime = 0,
              !.dwellActivated = FALSE]

\* updateToolbarHover(screenX, screenY) at time t
updateToolbarHover(w, pos, t) ==
    LET btn == getToolbarButtonAt(pos)
        a0 == w.app
        a1 == IF a0.hoveredButton # NoButton /\ a0.hoveredButton # btn
              THEN Unhovered(a0) ELSE a0
        a2 == [a1 EXCEPT !.isOverToolbar = isPositionOverToolbar(pos)]
    IN IF btn = NoButton THEN [w EXCEPT !.app = a2]
       ELSE IF a2.hoveredButton # btn
       THEN [w EXCEPT !.app = [a2 EXCEPT !.hoveredButton = btn,
                                         !.hoverStartTime = t,
                                         !.dwellActivated = FALSE]]
       ELSE IF /\ a2.hoverStartTime # 0
               /\ ~a2.dwellActivated
               /\ DwellDue(t - a2.hoverStartTime)
       THEN activateHoveredButton(
                [w EXCEPT !.app = [a2 EXCEPT !.dwellActivated = TRUE]])
       ELSE [w EXCEPT !.app = a2]

\* clearToolbarHover
clearToolbarHover(w) ==
    [w EXCEPT !.app = [(IF @.hoveredButton # NoButton THEN Unhovered(@) ELSE @)
                          EXCEPT !.isOverToolbar = FALSE]]

\* a dispatcher that closes the draw whether or not one is open
StopDrawing_Unguarded(w) ==
    LET s == onPinchEnd(w.tools, w.canvas)
    IN Did([w EXCEPT !.tools = s.tools, !.canvas = s.canvas,
                     !.app.isCurrentlyDrawing = FALSE],
           "onPinchEnd")

\* if (this.isCurrentlyDrawing) { onPinchEnd; isCurrentlyDrawing = false }
StopDrawing(w) ==
    IF w.app.isCurrentlyDrawing
    THEN LET s == onPinchEnd(w.tools, w.canvas)
         IN Did([w EXCEPT !.tools = s.tools, !.canvas = s.canvas,
                          !.app.isCurrentlyDrawing = FALSE],
                "onPinchEnd")
    ELSE w

\* if (this.isCurrentlyPanning) { onPanEnd; isCurrentlyPanning = false }
StopPanning(w) ==
    IF w.app.isCurrentlyPanning
    THEN Did([w EXCEPT !.tools = onPanEnd(@),
                       !.app.isCurrentlyPanning = FALSE],
             "onPanEnd")
    ELSE w

\* a dispatcher that starts a draw in every pointing frame
Draw_AlwaysStart(w, pos) ==
    LET s == onPinchStart(w.tools, w.canvas, pos)
    IN Did([w EXCEPT !.tools = s.tools, !.canvas = s.canvas,
                     !.app.isCurrentlyDrawing = TRUE],
           "onPinchStart")

\* start or continue drawing
Draw(w, pos) ==
    IF ~w.app.isCurrentlyDrawing
    THEN LET s == onPinchStart(w.tools, w.canvas, pos)
         IN Did([w EXCEPT !.tools = s.tools, !.canvas = s.canvas,
                          !.app.isCurrentlyDrawing = TRUE],
                "onPinchStart")
    ELSE LET s == onPinchMove(w.tools, w.canvas, pos)
         IN Did([w EXCEPT !.tools = s.tools, !.canvas = s.canvas],
                "onPinchMove")

\* start or continue panning
PanTo(w, pos) ==
    IF ~w.app.isCurrentlyPanning
    THEN Did([w EXCEPT !.tools = onPanStart(@, w.canvas, pos),
                       !.app.isCurrentlyPanning = TRUE],
             "onPanStart")
    ELSE Did([w EXCEPT !.canvas = onPanMove(w.tools, @, pos)], "onPanMove")

\* the end of handleGestures: the tap, then the fist
TapAndFist(w, g) ==
    LET pos == g.smoothedPosition
        tapped ==
            IF ~g.isTap THEN w
            ELSE IF w.app.hoveredButton # NoButton
            THEN activateHoveredButton(w)
            ELSE IF ~w.app.isCurrentlyDrawing
            THEN Did([w EXCEPT !.canvas = onTap(w.tools, @, pos)], "onTap")
            ELSE w
    IN IF g.isFist
       THEN LET cleared == clearToolbarHover(tapped)
            IN Did([cleared EXCEPT !.canvas = onFist(cleared.tools, @)],
                   "onFist")
       ELSE tapped

\* a dispatcher that handles the tap of an idle frame before it closes the
\* draw and the pan
Dispatch_TapFirst(w, g) ==
    LET pos == g.smoothedPosition
    IN IF g.isPointing
       THEN IF w.app.isOverToolbar
            THEN StopDrawing(w)
            ELSE TapAndFist(Draw(StopPanning(clearToolbarHover(w)), pos), g)
       ELSE IF g.isOpenPalm
       THEN TapAndFist(PanTo(StopDrawing(clearToolbarHover(w)), pos), g)
       ELSE StopPanning(StopDrawing(TapAndFist(w, g)))

\* a dispatcher whose palm frames leave an open draw open
Dispatch_PalmKeepsDraw(w, g) ==
    LET pos == g.smoothedPosition
    IN IF g.isPointing
       THEN IF w.app.isOverToolbar
            THEN StopDrawing(w)
            ELSE TapAndFist(Draw(StopPanning(clearToolbarHover(w)), pos), g)
       ELSE IF g.isOpenPalm
       THEN TapAndFist(PanTo(clearToolbarHover(w), pos), g)
       ELSE TapAndFist(StopPanning(StopDrawing(w)), g)

\* the branch of handleGestures for a gesture that is not null, after
\* updateToolbarHover
Dispatch(w, g) ==
    LET pos == g.smoothedPosition
    IN IF g.isPointing
       THEN IF w.app.isOverToolbar
            THEN StopDrawing(w)
            ELSE TapAndFist(Draw(StopPanning(clearToolbarHover(w)), pos), g)
       ELSE IF g.isOpenPalm
       THEN TapAndFist(PanTo(StopDrawing(clearToolbarHover(w)), pos), g)
       ELSE TapAndFist(StopPanning(StopDrawing(w)), g)

\* GestureCanvasApp.handleGestures(gesture) at time t
handleGestures(w, g, t) ==
    IF g = NullGesture
    THEN clearToolbarHover(StopPanning(StopDrawing(w)))
    ELSE Dispatch(updateToolbarHover(w, g.smoothedPosition, t), g)

---------------------------------------------------------------------------
(* Frames handled by the application *)

MaxAppFrames == 4

\* the time from one frame to the next
FrameMs == 100

\* a gesture as GestureRecognizer.process returns it: the flags exclude
\* each other, and a pointing frame is never a tap
AppGesture(kind, isTap, pos) ==
    [type |-> kind,
     isPointing |-> kind = "point",
     isOpenPalm |-> kind = "palm",
     isFist |-> kind = "fist",
     isTap |-> isTap,
     smoothedPosition |-> pos]

\* on the canvas, on the element of the scene and off it; over the toolbar,
\* on its buttons and beside them
OnElement == Point(0, 0)
OffElement == Point(30, 30)
OnRectangleButton == Point(50, 0)
OnSelectButton == Point(60, 0)
OnToolbar == Point(70, 0)

AppGestures ==
    {NullGesture}
        \cup {AppGesture("point", FALSE, p) :
                  p \in {OnElement, OffElement, OnRectangleButton, OnToolbar}}
        \cup {AppGesture("palm", t, p) :
                  t \in BOOLEAN, p \in {OnElement, OnRectangleButton}}
        \cup {AppGesture(k, t, p) :
                  k \in {"idle", "fist"}, t \in BOOLEAN,
                  p \in {OnElement, OffElement, OnRectangleButton}}
        \cup {AppGesture("idle", TRUE, OnSelectButton)}

\* the tools of the keyboard shortcuts that are pressed
KeyTools == {"select", "rectangle"}

\* the application with its tool manager and canvas as a call finds them
World == [app |-> app, tools |-> Quiet(tools), canvas |-> Fresh(canvas),
          calls |-> <<>>]

RECURSIVE Sessions(_, _, _)
\* the draw sessions after the calls from the k-th on, given the sessions
\* before them: whether one is open, whether every onPinchStart came with
\* none open and every onPinchMove and onPinchEnd with one open
Sessions(d, calls, k) ==
    IF k > Len(calls) THEN d
    ELSE Sessions(
             CASE calls[k] = "onPinchStart" ->
                      [d EXCEPT !.open = TRUE, !.proper = @ /\ ~d.open]
               [] calls[k] = "onPinchMove" ->
                      [d EXCEPT !.proper = @ /\ d.open]
               [] calls[k] = "onPinchEnd" ->
                      [d EXCEPT !.open = FALSE, !.proper = @ /\ d.open]
               [] OTHER -> d,
             calls, k + 1)

\* the name is among the calls
Made(calls, name) == \E k \in 1..Len(calls) : calls[k] = name

\* what is known of the frames so far, after a frame with gesture g at
\* time t that made the calls: the draw sessions; since when the hand has
\* been pointing (0: it was not, in the last frame) and when the last tap
\* was; the cursor and the pan offset at the start of the pan session that
\* is open, and whether every frame since was an open palm
Frames(d, g, t, calls, offset) ==
    [Sessions(d, calls, 1) EXCEPT
        !.pointSince = IF g.type # "point" THEN 0
                       ELSE IF @ = 0 THEN t ELSE @,
        !.lastTap = IF g.type # "null" /\ g.isTap THEN t ELSE @,
        !.pan = IF Made(calls, "onPanStart")
                THEN Some([cursor |-> g.smoothedPosition, offset |-> offset,
                           unbroken |-> TRUE])
                ELSE IF Made(calls, "onPanEnd") THEN Null
                ELSE IF @ # Null /\ g.type # "palm"
                THEN Some([@[1] EXCEPT !.unbroken = FALSE])
                ELSE @]

\* detectTap can report a tap in the frame at time t: the hand was pointing
\* in the frame before, for less than TAP_DURATION, and the last tap is
\* more than TAP_COOLDOWN ago
TapPossible(d, t) ==
    /\ d.pointSince # 0
    /\ t - d.pointSince < TAP_DURATION
    /\ t - d.lastTap > TAP_COOLDOWN

\* the application was called: a frame, or a key
AppCalled(name, input, w, d) ==
    /\ steps < MaxAppFrames
    /\ steps' = steps + 1
    /\ app' = w.app
    /\ tools' = w.tools
    /\ canvas' = w.canvas
    /\ pre' = Fresh(canvas)
    /\ op' = [name |-> name, id |-> 0, present |-> FALSE,
              tool |-> tools.tools[tools.currentTool]]
    /\ call' = [name |-> name, input |-> input,
                before |-> [app |-> app, tools |-> Quiet(tools)],
                calls |-> w.calls]
    /\ run' = d
    /\ UNCHANGED <<elemVars, handVars, rec, tap>>

\* the application handled the frame with gesture g and is left as w
FrameHandled(g, w) ==
    AppCalled("handleGestures", g, w,
              Frames(run, g, now', w.calls,
                     [x |-> canvas.transform.x, y |-> canvas.transform.y]))

\* onHandResults hands the gesture of the frame to handleGestures
HandleGestures ==
    \E g \in AppGestures :
        /\ now' = now + FrameMs
        /\ (g.type # "null" /\ g.isTap) => TapPossible(run, now')
        /\ FrameHandled(g, handleGestures(World, g, now'))

\* keydown with the shortcut of a tool: selectToolByName
KeyDown ==
    \E n \in KeyTools :
        /\ now' = now
        /\ AppCalled("keydown", n, [World EXCEPT !.tools = setTool(@, n)],
                     run)

\* the application after init, with one rectangle (0,0)..(10,10) drawn
InitApp ==
    /\ LET s == Gesture(Started, "rectangle", <<Point(0, 0), Point(10, 10)>>)
       IN /\ \E n \in {"select", "rectangle", "freehand"} :
                 tools = Quiet(setTool(s.tools, n))
          /\ canvas = Fresh(s.canvas)
    /\ app = NewApp
    /\ pre = canvas
    /\ op = NoOp
    /\ steps = 0
    /\ run = [open |-> FALSE, proper |-> TRUE, pointSince |-> 0,
              lastTap |-> 0, pan |-> Null]
    /\ call = NoCall
    /\ now = StartTime
    /\ rec = NewRecognizer /\ tap = NoTap
    /\ InitElem /\ InitHand

NextApp == HandleGestures \/ KeyDown

SpecApp == InitApp /\ [][NextApp]_vars

\* the last call was handleGestures with a gesture of one of the kinds
Handled(kinds) == op.name = "handleGestures" /\ call.input.type \in kinds

\* the tool that is current now
ActiveTool == tools.tools[tools.currentTool]

\* C22: after handleGestures has processed a null gesture, or one that is
\* neither pointing nor open palm (idle, fist), neither drawing nor panning
\* is open: the flags of the application and of the ToolManager are false,
\* the pan start point and start transform are null, and the active tool
\* holds no preview and no dragged element; after a null gesture the
\* toolbar hover is cleared too.
C22_ClosedWhenIdle ==
    Handled({"null", "idle", "fist"}) =>
        /\ ~app.isCurrentlyDrawing /\ ~app.isCurrentlyPanning
        /\ ~tools.isDrawing /\ ~tools.isPanning
        /\ tools.panStartPoint = Null /\ tools.panStartTransform = Null
        /\ ActiveTool.previewElement = Null
        /\ ActiveTool.draggedElement = 0
        /\ Handled({"null"}) =>
               (app.hoveredButton = NoButton /\ ~app.isOverToolbar)

\* the calls of onPinchStart, onPinchMove and onPinchEnd in the last frame
DrawCalls ==
    SelectSeq(call.calls,
              LAMBDA c : c \in {"onPinchStart", "onPinchMove", "onPinchEnd"})

\* a draw was open when the last frame began
WasDrawing == call.before.app.isCurrentlyDrawing

\* C23: in a pointing frame with the cursor over the toolbar region an open
\* draw is closed by onPinchEnd and there is no onPinchStart or onPinchMove;
\* in a pointing frame elsewhere the tool manager gets onPinchStart if no
\* draw was open and onPinchMove otherwise.  So over any sequence of frames
\* the calls form sessions onPinchStart, onPinchMove*, onPinchEnd, and the
\* tool manager's own flag says the same.
C23_DrawSessions ==
    /\ run.proper
    /\ run.open = app.isCurrentlyDrawing
    /\ tools.isDrawing = app.isCurrentlyDrawing
    /\ Handled({"point"}) =>
           IF isPositionOverToolbar(call.input.smoothedPosition)
           THEN DrawCalls = IF WasDrawing THEN <<"onPinchEnd">> ELSE <<>>
           ELSE DrawCalls = IF WasDrawing THEN <<"onPinchMove">>
                            ELSE <<"onPinchStart">>

\* a draw was open when the cursor came over the toolbar, pointing
C23_Witness ==
    /\ Handled({"point"})
    /\ isPositionOverToolbar(call.input.smoothedPosition)
    /\ WasDrawing
    /\ call.before.tools.tools["rectangle"].previewElement # Null
    /\ DrawCalls = <<"onPinchEnd">>
    /\ ~app.isCurrentlyDrawing

\* the calls of the tool manager for drawing and panning in the last frame
GestureCalls ==
    SelectSeq(call.calls,
              LAMBDA c : c \in {"onPinchStart", "onPinchMove", "onPinchEnd",
                                "onPanStart", "onPanMove", "onPanEnd"})

\* a pan was open when the last frame began
WasPanning == call.before.app.isCurrentlyPanning

\* the cursor of the last frame
Cursor == call.input.smoothedPosition

\* the elements without their selection, which is transient state of the
\* user interface and not part of the drawing
Unselected(elements) ==
    [i \in DOMAIN elements |-> [elements[i] EXCEPT !.selected = FALSE]]

\* the elements of the drawing are as before the last frame; only a tap or
\* a fist in the frame may have changed which one is selected
SameElements ==
    IF call.input.type # "null" /\ (call.input.isTap \/ call.input.isFist)
    THEN Unselected(canvas.elements) = Unselected(pre.elements)
    ELSE canvas.elements = pre.elements

C24_WitnessClosesDraw ==
    /\ Handled({"palm"})
    /\ WasDrawing
    /\ Len(canvas.elements) = 2
    /\ tools.panStartPoint # Null

\* the last frame was a tap
TapHandled == op.name = "handleGestures" /\ call.input.type # "null"
              /\ call.input.isTap

\* the control that is hovered when the tap of the last frame is handled:
\* palm frames clear the hover before
HoveredAtTap ==
    IF call.input.type = "palm" THEN NoButton ELSE getToolbarButtonAt(Cursor)

\* the element a hit test at the cursor finds, 0 if none
UnderCursor == getElementAt(canvas, CanvasPoint(canvas, Cursor))

\* exactly the element with the id is selected, none if it is 0
OnlySelected(id) ==
    /\ canvas.selectedElement = id
    /\ \A i \in DOMAIN canvas.elements :
           canvas.elements[i].selected <=> canvas.elements[i].id = id

\* the selection is as before the frame
SameSelection ==
    /\ canvas.selectedElement = pre.selectedElement
    /\ \A i \in DOMAIN canvas.elements :
           i \in DOMAIN pre.elements =>
               canvas.elements[i].selected = pre.elements[i].selected

\* what C26 says of a tap frame that is not a fist (a fist clears the
\* selection after the tap)
TapFrame ==
    IF HoveredAtTap # NoButton
    THEN /\ Made(call.calls, "click") /\ ~Made(call.calls, "onTap")
         /\ tools.currentTool = HoveredAtTap
         /\ SameSelection
    ELSE /\ Made(call.calls, "onTap") /\ ~Made(call.calls, "click")
         /\ OnlySelected(UnderCursor)

\* C26: in a frame with isTap, if a control is hovered it is activated and
\* the tap does not change the selection; otherwise (no draw is open then)
\* the hit test at the cursor selects the topmost element under it, or
\* clears the selection if there is none, whichever tool is current.
C26_TapSelects ==
    (TapHandled /\ call.input.type # "fist") => TapFrame

\* the same with the select tool current
C26_TapSelectsWithSelectTool ==
    (TapHandled /\ call.input.type # "fist"
        /\ call.before.tools.currentTool = "select") => TapFrame

\* a tap on the element while the rectangle tool is current, and a tap on
\* a button
C26_TapOnElement ==
    /\ TapHandled /\ call.input.type = "idle"
    /\ call.before.tools.currentTool = "rectangle"
    /\ HoveredAtTap = NoButton
    /\ UnderCursor # 0

C26_TapOnButton ==
    /\ TapHandled /\ call.input.type = "idle"
    /\ HoveredAtTap = "select"
    /\ call.before.tools.currentTool = "rectangle"
    /\ pre.selectedElement # 0

\* C27: after any frame classified as fist, whatever the state before, no
\* control is hovered (the hover and its dwell timer are cleared), no element
\* is selected, and neither drawing nor panning is open.
C27_FistClears ==
    Handled({"fist"}) =>
        /\ app.hoveredButton = NoButton
        /\ app.hoverStartTime = 0 /\ ~app.dwellActivated
        /\ ~app.isOverToolbar
        /\ OnlySelected(0)
        /\ ~app.isCurrentlyDrawing /\ ~app.isCurrentlyPanning
        /\ ~tools.isDrawing /\ ~tools.isPanning

\* the fist came while a control was hovered and an element selected
C27_Witness ==
    /\ Handled({"fist"})
    /\ call.before.app.hoveredButton # NoButton
    /\ pre.selectedElement # 0
    /\ canvas.selectedElement = 0

\* the fist came while a pan was open, and while a draw was open
C27_WitnessPanning == Handled({"fist"}) /\ WasPanning

C27_WitnessDrawing ==
    Handled({"fist"}) /\ WasDrawing /\ call.input.isTap

---------------------------------------------------------------------------
(* The application, and calls of ToolManager.onPinchEnd and onPanEnd that
   come at any time *)

\* toolManager.onPinchEnd(x, y), whether or not a draw is open
ManagerPinchEnd ==
    /\ now' = now
    /\ LET s == onPinchEnd(Quiet(tools), Fresh(canvas))
       IN AppCalled("onPinchEnd", NullGesture,
                    [World EXCEPT !.tools = s.tools, !.canvas = s.canvas],
                    run)

\* toolManager.onPanEnd(), whether or not a pan is open
ManagerPanEnd ==
    /\ now' = now
    /\ AppCalled("onPanEnd", NullGesture,
                 [World EXCEPT !.tools = onPanEnd(@)], run)

NextClose == HandleGestures \/ KeyDown \/ ManagerPinchEnd \/ ManagerPanEnd

SpecClose == InitApp /\ [][NextClose]_vars

\* the manager and the canvas are as the last call found them, and no
\* error was raised
NothingDone ==
    /\ tools = call.before.tools
    /\ canvas = pre
    /\ ~canvas.threw

\* neither a draw nor a pan was open when the last frame began, for the
\* application and for the manager
NothingOpen ==
    /\ ~WasDrawing /\ ~WasPanning
    /\ ~call.before.tools.isDrawing /\ ~call.before.tools.isPanning

C28_WitnessPan ==
    /\ op.name = "onPanEnd"
    /\ ~call.before.tools.isPanning
    /\ canvas.transform.x # RInt(0)

\* a null frame found the application drawing and the manager not: its
\* onPinchEnd closed nothing
C28_WitnessFrame ==
    /\ Handled({"null"})
    /\ WasDrawing /\ ~call.before.tools.isDrawing
    /\ GestureCalls = <<"onPinchEnd">>

\* a fist frame with nothing open and an element selected
C28_WitnessFist ==
    /\ Handled({"fist"}) /\ NothingOpen
    /\ pre.selectedElement # 0

---------------------------------------------------------------------------
(* Frames that come slowly: the dwell over a control of the toolbar *)

MaxDwellFrames == 6

\* the times from one frame to the next
DwellGaps == {1000, 2000, 3000}

\* the hand rests on a button, points at it, shows its palm or a fist over
\* it, rests beside the toolbar, or is gone; no frame is a tap, the frames
\* being further apart than TAP_DURATION
DwellGestures ==
    {NullGesture}
        \cup {AppGesture("idle", FALSE, p) :
                  p \in {OnRectangleButton, OnSelectButton, OffElement}}
        \cup {AppGesture(k, FALSE, OnRectangleButton) :
                  k \in {"point", "palm", "fist"}}

\* no control is hovered
NoHover == [btn |-> NoButton, since |-> 0, fired |-> FALSE, due |-> FALSE]

\* The hover as the frames show it, after a frame with gesture g at time t:
\* the control under the cursor, since when the cursor has been on it
\* without a break, whether the dwell has fired in that time, and whether it
\* is due in this frame.  The hover ends when the hand is gone, and after a
\* frame that clears it: palm, fist, pointing beside the toolbar.
Hover(h, g, t) ==
    IF g = NullGesture THEN NoHover
    ELSE LET b == getToolbarButtonAt(g.smoothedPosition)
             due == /\ b # NoButton /\ b = h.btn
                    /\ ~h.fired
                    /\ t - h.since >= 3000
             kept == g.type = "idle"
                        \/ /\ g.type = "point"
                           /\ isPositionOverToolbar(g.smoothedPosition)
         IN IF b = NoButton \/ ~kept THEN [NoHover EXCEPT !.due = due]
            ELSE IF b = h.btn
            THEN [h EXCEPT !.fired = @ \/ due, !.due = due]
            ELSE [btn |-> b, since |-> t, fired |-> FALSE, due |-> FALSE]

\* the application handled the frame with gesture g and is left as w
DwellHandled(g, w) ==
    /\ steps < MaxDwellFrames
    /\ steps' = steps + 1
    /\ app' = w.app
    /\ tools' = w.tools
    /\ canvas' = w.canvas
    /\ pre' = Fresh(canvas)
    /\ op' = [name |-> "handleGestures", id |-> 0, present |-> FALSE,
              tool |-> tools.tools[tools.currentTool]]
    /\ call' = [name |-> "handleGestures", input |-> g,
                before |-> [app |-> app, tools |-> Quiet(tools)],
                calls |-> w.calls]
    /\ run' = Hover(run, g, now')
    /\ UNCHANGED <<elemVars, handVars, rec, tap>>

\* onHandResults hands the gesture of the frame to handleGestures
DwellFrame ==
    \E g \in DwellGestures, gap \in DwellGaps :
        /\ now' = now + gap
        /\ DwellHandled(g, handleGestures(World, g, now'))

InitDwell ==
    /\ LET s == Gesture(Started, "rectangle", <<Point(0, 0), Point(10, 10)>>)
       IN /\ \E n \in {"select", "rectangle", "freehand"} :
                 tools = Quiet(setTool(s.tools, n))
          /\ canvas = Fresh(s.canvas)
    /\ app = NewApp
    /\ pre = canvas
    /\ op = NoOp
    /\ steps = 0
    /\ run = NoHover
    /\ call = NoCall
    /\ now = StartTime
    /\ rec = NewRecognizer /\ tap = NoTap
    /\ InitElem /\ InitHand

NextDwell == DwellFrame

SpecDwell == InitDwell /\ [][NextDwell]_vars

\* the activations of a control in the last frame
Activations == Count(call.calls, "click")

\* C25: while the cursor stays on the same control the dwell activates the
\* control exactly once, in the first frame in which the hover has lasted
\* HOVER_DWELL_TIME (3000 ms) or more, and never before; it activates again
\* only after the hover was lost or moved to another control and a new
\* hover has lasted 3000 ms.
C25_DwellOnce ==
    (op.name = "handleGestures") =>
        /\ Activations = IF run.due THEN 1 ELSE 0
        /\ run.due => tools.currentTool = getToolbarButtonAt(Cursor)

\* the dwell fired after exactly 3000 ms and switched the tool
C25_Witness ==
    /\ op.name = "handleGestures"
    /\ run.due /\ run.btn # NoButton
    /\ now - run.since = 3000
    /\ call.before.tools.currentTool # run.btn
    /\ tools.currentTool = run.btn

\* the hover went on after the dwell had fired, 3000 ms and more
C25_WitnessOnce ==
    /\ op.name = "handleGestures"
    /\ run.btn # NoButton /\ run.fired /\ ~run.due
    /\ now - run.since >= 6000
    /\ Activations = 0

\* the dwell fired a second time, on a new hover
C25_WitnessAgain ==
    /\ op.name = "handleGestures"
    /\ run.due
    /\ run.since > StartTime + 3000
    /\ steps >= 5

---------------------------------------------------------------------------
(* The conversions between screen and canvas *)

\* the points converted: whole and fractional coordinates, on both sides of
\* the origin
ConvertedPoints ==
    {[x |-> RInt(0), y |-> RInt(0)],
     [x |-> RInt(100), y |-> RInt(50)],
     [x |-> RInt(-7), y |-> RInt(3)],
     [x |-> Rat(1, 3), y |-> Rat(-5, 2)]}

\* C31: with the transform of any state reached by pan, zoom, setZoom,
\* resetView and the palm pan, canvasToScreen(screenToCanvas(P)) = P and
\* screenToCanvas(canvasToScreen(P)) = P for every point P (the arithmetic
\* is exact here; the program's is floating point, where the spec asks for
\* equality within tolerance).
C31_ConversionsInverse ==
    \A P \in ConvertedPoints :
        LET onCanvas == screenToCanvas(canvas, P.x, P.y)
            onScreen == canvasToScreen(canvas, P.x, P.y)
        IN /\ canvasToScreen(canvas, onCanvas.x, onCanvas.y) = P
           /\ screenToCanvas(canvas, onScreen.x, onScreen.y) = P

\* the view is zoomed to a scale that is not a whole number and panned, so
\* that neither conversion is the identity
C31_Witness ==
    /\ op.name \in {"pan", "zoom", "onPanMove"}
    /\ canvas.transform.scale[2] # 1
    /\ canvas.transform.x # RInt(0)
    /\ canvas.transform.y # RInt(0)
    /\ \A P \in ConvertedPoints :
           /\ screenToCanvas(canvas, P.x, P.y) # P
           /\ canvasToScreen(canvas, P.x, P.y) # P

---------------------------------------------------------------------------
(* Hit tests on a scene of overlapping elements, under a view that is
   zoomed and panned *)

MaxHitOps == 4

\* the shapes added: rectangles and a circle that overlap in part
HitShapes ==
    {[type |-> "rectangle", x |-> 0, y |-> 0, width |-> 10, height |-> 10],
     [type |-> "rectangle", x |-> 5, y |-> 5, width |-> 10, height |-> 10],
     [type |-> "circle", x |-> 0, y |-> 0, width |-> 20, height |-> 20]}

\* where the screen is hit
HitPoints ==
    {Point(0, 0), Point(6, 6), Point(12, 12), Point(20, 20), Point(40, 40)}

\* a method of the canvas was called; getElementAt returned the result
HitCalled(name, point, result, c) ==
    /\ steps < MaxHitOps
    /\ steps' = steps + 1
    /\ pre' = Fresh(canvas)
    /\ op' = [name |-> name, id |-> result, present |-> FALSE,
              point |-> point]
    /\ canvas' = c
    /\ UNCHANGED <<run, elemVars, handVars, tapVars, toolVars>>

HitAdd ==
    \E h \in HitShapes :
        LET options == Options([x |-> h.x, y |-> h.y, width |-> h.width,
                                height |-> h.height])
            e == IF h.type = "circle" THEN Circle(options, canvas.nextId)
                 ELSE Rectangle(options, canvas.nextId)
        IN HitCalled("addElement", Point(0, 0), e.id,
                     addElement([Fresh(canvas) EXCEPT !.nextId = @ + 1], e))

HitZoom ==
    \E f \in {RInt(2), Rat(1, 2)} :
        HitCalled("zoom", Point(0, 0), 0,
                  zoom(Fresh(canvas), f, RInt(0), RInt(0)))

HitPan ==
    HitCalled("pan", Point(0, 0), 0, pan(Fresh(canvas), RInt(12), RInt(12)))

GetElementAt ==
    \E p \in HitPoints :
        HitCalled("getElementAt", p,
                  getElementAt(canvas, CanvasPoint(canvas, p)),
                  Fresh(canvas))

InitHit ==
    /\ canvas = Fresh(saveHistory(NewCanvas(1)))
    /\ tools = NewToolManager
    /\ pre = canvas
    /\ op = NoOp
    /\ steps = 0
    /\ run = NoRun
    /\ call = NoCall
    /\ app = NoApp
    /\ InitElem /\ InitHand /\ InitTap

NextHit == HitAdd \/ HitZoom \/ HitPan \/ GetElementAt

SpecHit == InitHit /\ [][NextHit]_vars

\* the positions in the element list of the elements that contain the
\* canvas point under the screen point hit last
Containing ==
    {i \in 1..Len(canvas.elements) :
        containsPoint(canvas.elements[i], CanvasPoint(canvas, op.point))}

\* C32: getElementAt(screenPos) returns, of the elements that contain the
\* canvas point under screenPos, the one highest in the element list (added
\* last), and null when none contains it.
C32_TopmostHit ==
    (op.name = "getElementAt") =>
        IF Containing = {} THEN op.id = 0
        ELSE \E i \in Containing :
                 /\ canvas.elements[i].id = op.id
                 /\ \A j \in Containing : j <= i

\* two elements and more contain the point, under a view that is zoomed and
\* panned, and the one found is neither the first nor the only one
C32_Witness ==
    /\ op.name = "getElementAt"
    /\ Cardinality(Containing) >= 2
    /\ canvas.transform.scale # RInt(1)
    /\ op.id # canvas.elements[1].id

\* no element contains the point, though the scene has elements
C32_WitnessNone ==
    /\ op.name = "getElementAt"
    /\ canvas.elements # <<>>
    /\ op.id = 0

---------------------------------------------------------------------------
(* The historyChanged notification *)

\* what canUndo() and canRedo() return
Availability(c) == [canUndo |-> canUndo(c), canRedo |-> canRedo(c)]

\* C33: every operation that changes the value of canUndo() or canRedo()
\* emits historyChanged, and the payload of the most recent historyChanged
\* equals the current (canUndo(), canRedo()).
C33_HistoryChangedCurrent ==
    /\ Availability(canvas) # Availability(pre) =>
           Count(canvas.events, "historyChanged") > 0
    /\ canvas.historyChanged = Availability(canvas)

\* an undo changed what is available and told the subscribers so
C33_WitnessUndo ==
    /\ op.name = "undo"
    /\ Availability(canvas) # Availability(pre)
    /\ Count(canvas.events, "historyChanged") = 1
    /\ canvas.historyChanged = Availability(canvas)

\* fromJSON took the undo away and emitted nothing
C33_StaleAfterFromJSON ==
    /\ op.name = "fromJSON"
    /\ canUndo(pre) /\ ~canUndo(canvas)
    /\ canvas.events = <<>>
    /\ canvas.historyChanged.canUndo

---------------------------------------------------------------------------
(* undo followed by redo, and redo followed by undo *)

\* the serialization of the scene
Scene(c) == Serialize(c.elements)

\* the serialization without the ids
SceneButIds(c) ==
    [i \in 1..Len(c.elements) |-> [toJSON(c.elements[i]) EXCEPT !.id = 0]]

\* the step is the second of a pair: first, then second, both carried out
PairEnds(first, second) ==
    /\ op.name = first /\ op'.name = second
    /\ IF first = "undo" THEN canUndo(pre) ELSE canRedo(pre)

\* after the pair the cursor and the history are those before it, and
\* nothing is selected after either operation
PairRestores ==
    /\ canvas'.historyIndex = pre.historyIndex
    /\ canvas'.history = pre.history
    /\ canvas.history = pre.history
    /\ canvas.selectedElement = 0 /\ canvas'.selectedElement = 0
    /\ \A i \in DOMAIN canvas'.elements : ~canvas'.elements[i].selected

\* C34: when canUndo() holds, undo() followed by redo() restores the same
\* historyIndex and a scene whose serialization equals the one before the
\* undo; when canRedo() holds, redo() followed by undo() does likewise;
\* neither changes the contents or the length of the history, and both
\* clear the selection.
C34_UndoRedo ==
    [][(PairEnds("undo", "redo") \/ PairEnds("redo", "undo")) =>
           (PairRestores /\ Scene(canvas') = Scene(pre))]_vars

\* the same, but for the ids in the serialization
C34_UndoRedoButIds ==
    [][(PairEnds("undo", "redo") \/ PairEnds("redo", "undo")) =>
           (PairRestores /\ SceneButIds(canvas') = SceneButIds(pre))]_vars

\* the same, but for the serialized scene
C34_UndoRedoCursor ==
    [][(PairEnds("undo", "redo") \/ PairEnds("redo", "undo")) =>
           PairRestores]_vars

---------------------------------------------------------------------------
(* The modes of the application *)

\* C35: after every frame handled by handleGestures drawing and panning are
\* not both open, and isCurrentlyDrawing and isCurrentlyPanning of the
\* application equal isDrawing and isPanning of the ToolManager.
C35_OneModeInSync ==
    /\ ~(app.isCurrentlyDrawing /\ app.isCurrentlyPanning)
    /\ ~(tools.isDrawing /\ tools.isPanning)
    /\ app.isCurrentlyDrawing = tools.isDrawing
    /\ app.isCurrentlyPanning = tools.isPanning

\* a frame went from panning to drawing, and one from drawing to panning
C35_Witness ==
    /\ Handled({"point"})
    /\ WasPanning /\ call.before.tools.isPanning
    /\ app.isCurrentlyDrawing /\ tools.isDrawing

C35_WitnessToPan ==
    /\ Handled({"palm"})
    /\ WasDrawing /\ call.before.tools.isDrawing
    /\ app.isCurrentlyPanning /\ tools.isPanning

\* after the last frame a draw is open iff the frame was pointing outside
\* the toolbar region
DrawTracksGesture ==
    app.isCurrentlyDrawing <=>
        (call.input.type = "point" /\ ~isPositionOverToolbar(Cursor))

\* after the last frame a pan is open iff the frame was an open palm
PanTracksGesture == app.isCurrentlyPanning <=> call.input.type = "palm"

\* C36: after handleGestures has processed a frame, a pan is open iff the
\* gesture of the frame was an open palm and a draw is open iff it was
\* pointing outside the toolbar region; so every onPanMove is relative to a
\* pan start recorded in the same unbroken run of palm frames.
C36_ModeTracksGesture ==
    (op.name = "handleGestures") =>
        /\ DrawTracksGesture
        /\ PanTracksGesture
        /\ Made(call.calls, "onPanMove") => run.pan[1].unbroken

\* the draw half of C36 alone
C36_DrawTracks == (op.name = "handleGestures") => DrawTracksGesture

\* a pan stayed open through a frame pointing over the toolbar, and the
\* next palm frame moved the view relative to the start of that pan
C36_PanSurvivesPointing ==
    /\ Handled({"palm"})
    /\ Made(call.calls, "onPanMove")
    /\ ~run.pan[1].unbroken
    /\ canvas.transform.x # pre.transform.x

---------------------------------------------------------------------------
(* Frames that draw and frames that activate controls, by tap and by dwell *)

\* the hand draws on the canvas, points at a button, rests on a button or
\* beside the toolbar, with and without a tap
InterruptGestures ==
    {AppGesture("point", FALSE, p) :
         p \in {OnElement, OffElement, OnRectangleButton}}
        \cup {AppGesture("idle", t, p) :
                  t \in BOOLEAN,
                  p \in {OnRectangleButton, OnSelectButton, OffElement}}

\* the next frame comes at once, or after the dwell time
InterruptFrame ==
    \E g \in InterruptGestures, gap \in {FrameMs, HOVER_DWELL_TIME} :
        /\ now' = now + gap
        /\ g.isTap => TapPossible(run, now')
        /\ FrameHandled(g, handleGestures(World, g, now'))

NextInterrupt == InterruptFrame \/ KeyDown

SpecInterrupt == InitApp /\ [][NextInterrupt]_vars

RECURSIVE ClickedWhileOpen(_, _, _)
\* among the calls from the k-th on there is a click on a control while a
\* draw is open, given whether one is open before them
ClickedWhileOpen(open, calls, k) ==
    IF k > Len(calls) THEN FALSE
    ELSE CASE calls[k] = "click" -> open \/ ClickedWhileOpen(open, calls, k + 1)
           [] calls[k] = "onPinchStart" -> ClickedWhileOpen(TRUE, calls, k + 1)
           [] calls[k] = "onPinchEnd" -> ClickedWhileOpen(FALSE, calls, k + 1)
           [] OTHER -> ClickedWhileOpen(open, calls, k + 1)

\* C37: through the gesture pipeline no control is activated, by dwell or
\* by tap, while a draw is open: after every frame an open draw implies that
\* no control is hovered, and within a frame a control is clicked only
\* before a draw is opened or after it was closed.
C37_NoClickWhileDrawing ==
    /\ app.isCurrentlyDrawing =>
           (app.hoveredButton = NoButton /\ app.hoverStartTime = 0)
    /\ (op.name = "handleGestures") =>
           ~ClickedWhileOpen(WasDrawing, call.calls, 1)

\* a tap activated a control in the frame that closed a draw, after the
\* draw was closed
C37_Witness ==
    /\ Handled({"idle"}) /\ call.input.isTap
    /\ WasDrawing
    /\ call.calls = <<"onPinchEnd", "click">>
    /\ call.before.tools.currentTool = "rectangle"
    /\ tools.currentTool = "select"

\* the dwell activated a control
C37_WitnessDwell ==
    /\ Handled({"idle", "point"}) /\ ~call.input.isTap
    /\ Made(call.calls, "click")
    /\ tools.currentTool # call.before.tools.currentTool

---------------------------------------------------------------------------
(* Gesture frames and the commands of the user interface *)

\* the commands besides the tool shortcuts: the undo, redo and clear
\* buttons (the user confirms the clear) and the Delete key
Commands == {"undo", "redo", "clear", "delete"}

Commanded(cmd, c) ==
    CASE cmd = "undo" -> undo(c)
      [] cmd = "redo" -> redo(c)
      [] cmd = "clear" -> clear(c)
      [] cmd = "delete" ->
            IF c.selectedElement # 0 THEN removeElement(c, c.selectedElement)
            ELSE c

Command ==
    \E cmd \in Commands :
        /\ now' = now
        /\ AppCalled(cmd, NullGesture,
                     [World EXCEPT !.canvas = Commanded(cmd, @)], run)

NextCommands == HandleGestures \/ KeyDown \/ Command

SpecCommands == InitApp /\ [][NextCommands]_vars

\* the serialized element list is the snapshot under the cursor
SceneIsSnapshot ==
    /\ canvas.historyIndex >= 0
    /\ canvas.historyIndex < Len(canvas.history)
    /\ Serialize(canvas.elements) = canvas.history[canvas.historyIndex + 1]

\* C38: once an initial snapshot has been saved, whenever no draw is open
\* the serialized element list equals history[historyIndex], for any
\* interleaving of gesture frames with setTool, delete-selected, clear, undo
\* and redo, also in the middle of a drag of the select tool.
C38_SceneInHistory ==
    (~app.isCurrentlyDrawing /\ ~tools.isDrawing) => SceneIsSnapshot

\* the same, but for the ids in the serialization: undo and redo give the
\* elements they restore new ids
C38_SceneInHistoryButIds ==
    (~app.isCurrentlyDrawing /\ ~tools.isDrawing) =>
        /\ canvas.historyIndex >= 0
        /\ canvas.historyIndex < Len(canvas.history)
        /\ SceneButIds(canvas) =
               [i \in DOMAIN canvas.history[canvas.historyIndex + 1] |->
                   [canvas.history[canvas.historyIndex + 1][i]
                       EXCEPT !.id = 0]]

\* a tool shortcut came in the middle of a drag of the select tool, and the
\* frame that closed the draw left the moved element out of the history
C38_DragEscapes ==
    /\ Handled({"idle", "null", "fist", "palm"})
    /\ WasDrawing
    /\ call.before.tools.currentTool = "rectangle"
    /\ call.before.tools.tools["select"].draggedElement # 0
    /\ ~app.isCurrentlyDrawing
    /\ ~SceneIsSnapshot
    /\ canvas.elements[1].x # canvas.history[canvas.historyIndex + 1][1].x

---------------------------------------------------------------------------
(* The selection of the canvas *)

\* the operations on the scene and its selection; selectElement is called
\* with elements of the scene only
NextSelect ==
    \/ AddElement \/ RemoveElement \/ SelectElement \/ DeselectAll
    \/ Clear \/ Undo \/ Redo \/ FromJSON

SpecSelect == InitCanvas /\ [][NextSelect]_vars

\* C39: in every state reached by addElement, removeElement, selectElement
\* of a scene element, deselectAll, clear, undo, redo and fromJSON,
\* selectedElement is null or an element of the scene, and an element of the
\* scene has selected = true iff it is selectedElement.
C39_SelectionConsistent ==
    /\ canvas.selectedElement = 0
           \/ canvas.selectedElement \in SceneIds(canvas)
    /\ \A i \in DOMAIN canvas.elements :
           canvas.elements[i].selected <=>
               canvas.elements[i].id = canvas.selectedElement

\* fromJSON with data that has no elements left the selected element in the
\* scene, marked selected, and selectedElement null
C39_MarkedButNotSelected ==
    /\ op.name = "fromJSON"
    /\ pre.selectedElement # 0
    /\ canvas.selectedElement = 0
    /\ \E i \in DOMAIN canvas.elements : canvas.elements[i].selected

---------------------------------------------------------------------------
(* The HandTracker: start, stop and the frame loop *)

MaxStartCalls == 3
MaxStopCalls == 2
MaxSends == 4

\* the values videoElement.readyState >= 2 can have: false without a stream
ReadyStates(t) == IF t.srcObject THEN BOOLEAN ELSE {FALSE}

\* the frame loops that are under way: a processFrame call waiting for the
\* detector, or one requested for the next animation frame
Loops(t) == t.sending + t.scheduled

\* processFrame up to its first suspension: returns when not running, sends
\* the frame when the video has data, requests the next frame otherwise
processFrame(t, ready) ==
    IF ~t.isRunning THEN t
    ELSE IF ready
         THEN [t EXCEPT !.sending = @ + 1, !.sent = @ + 1,
                        !.sentStopped = @ \/ t.stopped]
         ELSE [t EXCEPT !.scheduled = @ + 1]

\* start() up to its first suspension: returns when running, asks for the
\* camera otherwise
start(t) ==
    LET called == [t EXCEPT !.starts = @ + 1, !.stopped = FALSE]
    IN IF t.isRunning THEN called
       ELSE [called EXCEPT !.getUserMedia = @ + 1]

\* stop()
stop(t) ==
    [t EXCEPT !.isRunning = FALSE, !.srcObject = FALSE, !.stops = @ + 1,
              !.stopped = TRUE, !.event = "stopped"]

TrackerDoes(t) ==
    /\ tracker' = t
    /\ UNCHANGED <<hand, gesture, canvasVars, elemVars, tapVars, toolVars>>

Start ==
    /\ tracker.starts < MaxStartCalls
    /\ TrackerDoes(start(tracker))

Stop ==
    /\ tracker.stops < MaxStopCalls
    /\ TrackerDoes(stop(tracker))

\* getUserMedia resolved: start() resumes, attaches the stream and plays
CameraGranted ==
    /\ tracker.getUserMedia > 0
    /\ TrackerDoes([tracker EXCEPT !.getUserMedia = @ - 1, !.srcObject = TRUE,
                               !.play = @ + 1])

\* getUserMedia rejected: start() reports the error
CameraDenied ==
    /\ tracker.getUserMedia > 0
    /\ TrackerDoes([tracker EXCEPT !.getUserMedia = @ - 1, !.event = "error"])

\* play() resolved: start() resumes, sets isRunning and calls processFrame
Played ==
    /\ tracker.play > 0
    /\ tracker.sent < MaxSends
    /\ \E ready \in ReadyStates(tracker) :
           TrackerDoes([processFrame([tracker EXCEPT !.play = @ - 1,
                                                 !.isRunning = TRUE], ready)
                        EXCEPT !.event = "started"])

\* play() rejected: start() reports the error
PlayRejected ==
    /\ tracker.play > 0
    /\ TrackerDoes([tracker EXCEPT !.play = @ - 1, !.event = "error"])

\* hands.send settled: processFrame resumes and requests the next frame
Sent ==
    /\ tracker.sending > 0
    /\ TrackerDoes([tracker EXCEPT !.sending = @ - 1, !.scheduled = @ + 1])

\* the animation frame callback: processFrame is called
FrameCallback ==
    /\ tracker.scheduled > 0
    /\ tracker.sent < MaxSends
    /\ \E ready \in ReadyStates(tracker) :
           TrackerDoes(processFrame([tracker EXCEPT !.scheduled = @ - 1], ready))

InitTracker == InitHit

NextTracker ==
    \/ Start \/ Stop
    \/ CameraGranted \/ CameraDenied
    \/ Played \/ PlayRejected
    \/ Sent \/ FrameCallback

SpecTracker == InitTracker /\ [][NextTracker]_vars

\* C40: however start(), stop(), the camera and play promises and the
\* animation frame callbacks interleave, at most one frame loop is under
\* way, and no frame is sent to the detector after stop() before the next
\* start().
C40_OneLoopNoneAfterStop ==
    /\ Loops(tracker) <= 1
    /\ ~tracker.sentStopped

\* C40, its first half: at most one frame loop is under way
C40_OneLoop == Loops(tracker) <= 1

\* C40, its second half: no frame is sent after stop() before the next
\* start()
C40_NoneAfterStop == ~tracker.sentStopped

\* two loops under way after a second start() was called while the first
\* was waiting for the camera
C40_TwoLoops ==
    /\ Loops(tracker) = 2
    /\ tracker.stops = 0
    /\ tracker.starts = 2

\* a frame sent after stop() was called while start() was waiting
C40_SentAfterStop ==
    /\ tracker.sentStopped
    /\ tracker.starts = 1
    /\ tracker.stops = 1

====
